---- MODULE Spec2Model ----
(***************************************************************************)
(* Signature/hover resolution engine of the language server.               *)
(*                                                                         *)
(* Strings are sequences of one-character strings, indexed from 0 by the   *)
(* helpers below as JavaScript indexes them.  An optional value            *)
(* (undefined / null) is the empty tuple, a present value v is <<v>>.      *)
(***************************************************************************)
EXTENDS Integers, Sequences, FiniteSets, TLC

\* ------------------------------------------------------------------------
\* JavaScript string primitives
\* ------------------------------------------------------------------------

undefined == <<>>

Some(v) == <<v>>

Min(a, b) == IF a < b THEN a ELSE b

Max(a, b) == IF a > b THEN a ELSE b

\* String.prototype.slice(a, b): negative indexes count from the end.
JSSlice(s, a, b) ==
    LET n  == Len(s)
        a1 == IF a < 0 THEN Max(n + a, 0) ELSE Min(a, n)
        b1 == IF b < 0 THEN Max(n + b, 0) ELSE Min(b, n)
    IN  IF a1 >= b1 THEN <<>> ELSE SubSeq(s, a1 + 1, b1)

\* String.prototype.substring(a, b): clamps, and swaps a and b when a > b.
JSSubstring(s, a, b) ==
    LET n  == Len(s)
        a1 == Max(Min(a, n), 0)
        b1 == Max(Min(b, n), 0)
    IN  IF a1 <= b1 THEN SubSeq(s, a1 + 1, b1) ELSE SubSeq(s, b1 + 1, a1)

\* String.prototype.charAt(i): "" outside the string.
CharAt(s, i) == IF i >= 0 /\ i < Len(s) THEN s[i + 1] ELSE ""

\* String.prototype.indexOf(ch, from) for a one-character needle.
IndexOfFrom(s, ch, from) ==
    LET f   == Max(from, 0)
        hit == {i \in f..(Len(s) - 1) : s[i + 1] = ch}
    IN  IF hit = {} THEN -1 ELSE CHOOSE i \in hit : \A j \in hit : i <= j

IndexOf(s, ch) == IndexOfFrom(s, ch, 0)

LastIndexOf(s, ch) ==
    LET hit == {i \in 0..(Len(s) - 1) : s[i + 1] = ch}
    IN  IF hit = {} THEN -1 ELSE CHOOSE i \in hit : \A j \in hit : i >= j

\* s.split(ch).length - 1
CountChar(s, ch) == Cardinality({i \in 1..Len(s) : s[i] = ch})

\* The no-break space U+00A0, written as one character of the alphabet.
NBSP == "nbsp"

\* The class \s of a JavaScript regular expression (it includes U+00A0).
IsSpace(ch) == ch \in {" ", "\t", "\n", NBSP}

RECURSIVE RemoveWhitespace(_)
\* s.replace(/\s+/g, "")
RemoveWhitespace(s) ==
    IF s = <<>> THEN <<>>
    ELSE IF IsSpace(Head(s)) THEN RemoveWhitespace(Tail(s))
    ELSE <<Head(s)>> \o RemoveWhitespace(Tail(s))

RECURSIVE TrimStart(_)
TrimStart(s) ==
    IF s # <<>> /\ IsSpace(Head(s)) THEN TrimStart(Tail(s)) ELSE s

RECURSIVE TrimEnd(_)
TrimEnd(s) ==
    IF s # <<>> /\ IsSpace(s[Len(s)]) THEN TrimEnd(SubSeq(s, 1, Len(s) - 1)) ELSE s

Trim(s) == TrimStart(TrimEnd(s))

StartsWith(s, pre) == Len(s) >= Len(pre) /\ SubSeq(s, 1, Len(pre)) = pre

EndsWith(s, suf) ==
    Len(s) >= Len(suf) /\ SubSeq(s, Len(s) - Len(suf) + 1, Len(s)) = suf

RECURSIVE Join(_, _)
\* Array.prototype.join(sep) of an array of strings.
Join(arr, sep) ==
    IF arr = <<>> THEN <<>>
    ELSE IF Len(arr) = 1 THEN arr[1]
    ELSE arr[1] \o sep \o Join(Tail(arr), sep)

RECURSIVE ReplaceAll(_, _, _)
\* s.replace(new RegExp(pat, "g"), by) for a literal, non-empty pattern.
ReplaceAll(s, pat, by) ==
    IF s = <<>> THEN <<>>
    ELSE IF StartsWith(s, pat) THEN by \o ReplaceAll(SubSeq(s, Len(pat) + 1, Len(s)), pat, by)
    ELSE <<Head(s)>> \o ReplaceAll(Tail(s), pat, by)

IsLetter(ch) ==
    ch \in {"A", "B", "C", "D", "E", "F", "G", "H", "I", "J", "K", "L", "M",
            "N", "O", "P", "Q", "R", "S", "T", "U", "V", "W", "X", "Y", "Z",
            "a", "b", "c", "d", "e", "f", "g", "h", "i", "j", "k", "l", "m",
            "n", "o", "p", "q", "r", "s", "t", "u", "v", "w", "x", "y", "z"}

IsDigit(ch) == ch \in {"0", "1", "2", "3", "4", "5", "6", "7", "8", "9"}

\* [%A-Za-z]
IsIdentStart(ch) == ch = "%" \/ IsLetter(ch)

\* [\w%]
IsIdentChar(ch) == ch = "%" \/ ch = "_" \/ IsLetter(ch) \/ IsDigit(ch)

\* ------------------------------------------------------------------------
\* Text documents, positions and classified tokens
\* ------------------------------------------------------------------------

Position(line, character) == [line |-> line, character |-> character]

\* One classified token: start offset p, length c, language l, attribute s.
Tok(p, c, l, s) == [p |-> p, c |-> c, l |-> l, s |-> s]

\* The language and attribute tags of the classifier that the engine tests.
cos_langindex == "cos"

cos_macro_attrindex == "macro"

cos_method_attrindex == "method"

cos_mem_attrindex == "mem"

cos_comment_attrindex == "comment"

cos_dcom_attrindex == "dcom"

cos_str_attrindex == "str"

cos_delim_attrindex == "delim"

\* TextDocument.getText() of the whole document: the lines joined by "\n".
DocText(d) == Join(d.lines, <<"\n">>)

RECURSIVE LineOffset(_, _)
\* Offset of the first character of 0-based line ln.
LineOffset(d, ln) ==
    IF ln <= 0 THEN 0 ELSE LineOffset(d, ln - 1) + Len(d.lines[ln]) + 1

\* TextDocument.offsetAt: the position clamped into its line and the document.
OffsetAt(d, pos) ==
    LET n == Len(d.lines)
    IN  IF pos.line >= n THEN Len(DocText(d))
        ELSE IF pos.line < 0 THEN 0
        ELSE LET lo == LineOffset(d, pos.line)
                 hi == IF pos.line + 1 < n THEN LineOffset(d, pos.line + 1)
                       ELSE Len(DocText(d))
             IN  Max(Min(lo + pos.character, hi), lo)

\* TextDocument.getText(Range.create(from, to)).
GetText(d, from, to) == JSSubstring(DocText(d), OffsetAt(d, from), OffsetAt(d, to))

\* Text of the token tkn (0-based) of line ln (0-based).
TokenText(d, p, ln, tkn) ==
    LET t == p[ln + 1][tkn + 1]
    IN  GetText(d, Position(ln, t.p), Position(ln, t.p + t.c))

\* The character just before the cursor.
PrevChar(d, pos) ==
    GetText(d, Position(pos.line, pos.character - 1), pos)

\* ------------------------------------------------------------------------
\* Macro argument emphasis and expansion rendering
\* ------------------------------------------------------------------------

emphasizePrefix == <<"%", "%", "%", "%", "%">>

emphasizeSuffix == <<"@", "@", "@", "@", "@">>

\* arglist.replace(/ /g, " ")
NormalizeNbsp(s) == [i \in 1..Len(s) |-> IF s[i] = NBSP THEN " " ELSE s[i]]

\* The replacement both branches of emphasizeArgument perform.
Emphasized(arglist, start, end) ==
    RemoveWhitespace(JSSlice(arglist, 0, start) \o emphasizePrefix
                     \o JSSlice(arglist, start, end) \o emphasizeSuffix
                     \o JSSlice(arglist, end, Len(arglist)))

\* What stands for the result of a call whose loop never ends.
NeverReturns == <<"never returns">>

RECURSIVE EmphasisScan(_, _, _, _, _, _)
\* The while loop of emphasizeArgument, entered when start or end is unknown.
\* The search for thisspace starts at lastspace itself, so once lastspace is a
\* blank it stays there; the loop then ends only when spacesfound reaches
\* arg - 1, which it never does once it has passed it.
EmphasisScan(arglist, normalized, arg, end, lastspace, spacesfound) ==
    IF IndexOfFrom(normalized, " ", lastspace + 1) = -1
    THEN RemoveWhitespace(arglist)
    ELSE LET thisspace == IndexOfFrom(normalized, " ", lastspace)
         IN  IF thisspace = lastspace /\ arg < spacesfound + 2
             THEN NeverReturns
             ELSE IF arg = spacesfound + 2
             THEN LET start == thisspace + 1
                      end2  == IF end = -1
                               THEN IndexOfFrom(normalized, " ", start) - 1
                               ELSE end
                  IN  Emphasized(arglist, start, end2)
             ELSE EmphasisScan(arglist, normalized, arg, end, thisspace, spacesfound + 1)

\* emphasizeArgument, were its first test to turn away the last argument too.
emphasizeArgumentBelowLast(arglist, arg) ==
    LET normalized == NormalizeNbsp(arglist)
        numargs    == CountChar(normalized, " ") + 1
        start2     == IF arg = 1 THEN 1 ELSE -1
        end2       == IF arg = 1 THEN IndexOf(normalized, " ") - 1 ELSE -1
    IN  IF arg >= numargs THEN RemoveWhitespace(normalized)
        ELSE IF start2 # -1 /\ end2 # -1 THEN Emphasized(arglist, start2, end2)
        ELSE EmphasisScan(arglist, normalized, arg, end2, 0, 0)

emphasizeArgument(arglist, arg) ==
    LET normalized == NormalizeNbsp(arglist)
        numargs    == CountChar(normalized, " ") + 1
        end1       == IF arg = numargs THEN Len(normalized) - 1 ELSE -1
        start1     == IF arg = numargs /\ numargs > 1
                      THEN LastIndexOf(normalized, " ") + 1 ELSE -1
        start2     == IF arg = 1 THEN 1 ELSE start1
        end2       == IF arg = 1 /\ end1 = -1 THEN IndexOf(normalized, " ") - 1 ELSE end1
    IN  IF arg > numargs THEN RemoveWhitespace(normalized)
        ELSE IF start2 # -1 /\ end2 # -1 THEN Emphasized(arglist, start2, end2)
        ELSE EmphasisScan(arglist, normalized, arg, end2, 0, 0)

\* exp.map(e => e.trimEnd())
TrimEndAll(exp) == [i \in 1..Len(exp) |-> TrimEnd(exp[i])]

markdownifyExpansion(exp) ==
    <<"<pre>", "\n">>
    \o ReplaceAll(ReplaceAll(Join(TrimEndAll(exp), <<"\n">>), emphasizePrefix, <<"<b><i><u>">>),
                  emphasizeSuffix, <<"</u></i></b>">>)
    \o <<"\n", "</pre>">>

\* { kind: MarkupKind.Markdown, value }
Markdown(value) == [kind |-> "markdown", value |-> value]

\* ------------------------------------------------------------------------
\* Formal-spec parameter splitter
\* ------------------------------------------------------------------------

\* The test of the "," case, were it to accept a comma of a nested list as well.
EndsParameterAtAnyDepth(inQuote, openBraceCount, openParenCount) ==
    ~inQuote /\ openBraceCount = 0 /\ openParenCount >= 1

\* !inQuote && !openBraceCount && openParenCount === 1
EndsParameter(inQuote, openBraceCount, openParenCount) ==
    ~inQuote /\ openBraceCount = 0 /\ openParenCount = 1

RECURSIVE FormalSpecScan(_, _, _, _, _, _, _)
\* The forEach of formalSpecToParamsArr from character idx on.
FormalSpecScan(formalSpec, idx, currentParamStart, openParenCount, openBraceCount, inQuote, result) ==
    IF idx >= Len(formalSpec)
    THEN Append(result, <<currentParamStart, Len(formalSpec) - 1>>)
    ELSE LET char == formalSpec[idx + 1]
         IN  CASE char = "{" ->
                    FormalSpecScan(formalSpec, idx + 1, currentParamStart, openParenCount,
                                   IF inQuote THEN openBraceCount ELSE openBraceCount + 1,
                                   inQuote, result)
               [] char = "}" ->
                    FormalSpecScan(formalSpec, idx + 1, currentParamStart, openParenCount,
                                   IF inQuote THEN openBraceCount ELSE openBraceCount - 1,
                                   inQuote, result)
               [] char = "(" ->
                    FormalSpecScan(formalSpec, idx + 1, currentParamStart,
                                   IF inQuote THEN openParenCount ELSE openParenCount + 1,
                                   openBraceCount, inQuote, result)
               [] char = ")" ->
                    FormalSpecScan(formalSpec, idx + 1, currentParamStart,
                                   IF inQuote THEN openParenCount ELSE openParenCount - 1,
                                   openBraceCount, inQuote, result)
               [] char = "\"" ->
                    FormalSpecScan(formalSpec, idx + 1, currentParamStart, openParenCount,
                                   openBraceCount, ~inQuote, result)
               [] char = "," /\ EndsParameter(inQuote, openBraceCount, openParenCount) ->
                    FormalSpecScan(formalSpec, idx + 1, idx + 1, openParenCount,
                                   openBraceCount, inQuote,
                                   Append(result, <<currentParamStart, idx>>))
               [] OTHER ->
                    FormalSpecScan(formalSpec, idx + 1, currentParamStart, openParenCount,
                                   openBraceCount, inQuote, result)

\* formalSpecToParamsArr, were it to scan an empty list like any other.
formalSpecToParamsArrScanningEmptyList(formalSpec) ==
    FormalSpecScan(formalSpec, 0, 1, 0, 0, FALSE, <<>>)

\* Returns the [start,end] tuples for all parameters in a formal spec string.
formalSpecToParamsArr(formalSpec) ==
    IF RemoveWhitespace(formalSpec) = <<"(", ")">> THEN <<>>
    ELSE FormalSpecScan(formalSpec, 0, 1, 0, 0, FALSE, <<>>)

RECURSIVE CommaSpace(_)
\* s.replace(/,/g, ", ")
CommaSpace(s) ==
    IF s = <<>> THEN <<>>
    ELSE IF Head(s) = "," THEN <<",", " ">> \o CommaSpace(Tail(s))
    ELSE <<Head(s)>> \o CommaSpace(Tail(s))

\* signature.replace(/\s+/g, "").replace(/,/g, ", ")
MacroSigText(signature) == CommaSpace(RemoveWhitespace(signature))

\* ------------------------------------------------------------------------
\* Routine support: label lookup, parameter splitting, documentation
\* ------------------------------------------------------------------------

\* Remove anything following the first semicolon in a routine line.
stripRoutineComment(line) ==
    LET commentIdx == IndexOf(line, ";")
    IN  IF commentIdx = -1 THEN line ELSE JSSlice(line, 0, commentIdx)

\* paramStr.replace(/\r?\n/g, ' ')
NewlinesToSpaces(s) == [i \in 1..Len(s) |-> IF s[i] = "\n" THEN " " ELSE s[i]]

RECURSIVE SplitScan(_, _, _, _, _, _)
\* The for loop of splitRoutineParams from character i on.
SplitScan(normalized, i, current, inQuote, parenDepth, result) ==
    IF i >= Len(normalized)
    THEN IF Len(Trim(current)) > 0 THEN Append(result, Trim(current)) ELSE result
    ELSE LET char == CharAt(normalized, i)
         IN  IF char = "\"" /\ CharAt(normalized, i - 1) # "\\"
             THEN SplitScan(normalized, i + 1, Append(current, char), ~inQuote, parenDepth, result)
             ELSE IF ~inQuote /\ char = "("
             THEN SplitScan(normalized, i + 1, Append(current, char), inQuote, parenDepth + 1, result)
             ELSE IF ~inQuote /\ char = ")" /\ parenDepth > 0
             THEN SplitScan(normalized, i + 1, Append(current, char), inQuote, parenDepth - 1, result)
             ELSE IF ~inQuote /\ char = "," /\ parenDepth = 0
             THEN SplitScan(normalized, i + 1, <<>>, inQuote, parenDepth, Append(result, Trim(current)))
             ELSE SplitScan(normalized, i + 1, Append(current, char), inQuote, parenDepth, result)

\* result.filter((param) => param.length > 0)
NonEmptyOnly(arr) == SelectSeq(arr, LAMBDA param : Len(param) > 0)

\* Split a routine parameter list into individual parameters.
splitRoutineParams(paramStr) ==
    LET normalized == NewlinesToSpaces(paramStr)
    IN  IF Trim(normalized) = <<>> THEN <<>>
        ELSE NonEmptyOnly(SplitScan(normalized, 0, <<>>, FALSE, 0, <<>>))

RECURSIVE IdentEnd(_, _)
\* End (exclusive) of the run [\w%]* starting at index k.
IdentEnd(t, k) == IF IsIdentChar(CharAt(t, k)) THEN IdentEnd(t, k + 1) ELSE k

RECURSIVE SkipSpaces(_, _)
\* End (exclusive) of the run \s* starting at index k.
SkipSpaces(t, k) == IF IsSpace(CharAt(t, k)) THEN SkipSpaces(t, k + 1) ELSE k

\* ([%A-Za-z][\w%]*)(?:\s*\^\s*([%A-Za-z][\w%]*))?$ matched at index k.
LabelAndRoutineAt(t, k) ==
    IF ~IsIdentStart(CharAt(t, k)) THEN undefined
    ELSE LET e1 == IdentEnd(t, k + 1)
             c  == SkipSpaces(t, e1)
             k2 == SkipSpaces(t, c + 1)
         IN  IF e1 = Len(t)
             THEN Some([label |-> JSSlice(t, k, e1), routine |-> <<>>])
             ELSE IF CharAt(t, c) = "^" /\ IsIdentStart(CharAt(t, k2))
                     /\ IdentEnd(t, k2 + 1) = Len(t)
             THEN Some([label |-> JSSlice(t, k, e1), routine |-> JSSlice(t, k2, Len(t))])
             ELSE undefined

\* \b[Dd][Oo]\b at index i.
DoWordAt(t, i) ==
    /\ ~(IsLetter(CharAt(t, i - 1)) \/ IsDigit(CharAt(t, i - 1)) \/ CharAt(t, i - 1) = "_")
    /\ CharAt(t, i) \in {"D", "d"}
    /\ CharAt(t, i + 1) \in {"O", "o"}
    /\ ~(IsLetter(CharAt(t, i + 2)) \/ IsDigit(CharAt(t, i + 2)) \/ CharAt(t, i + 2) = "_")

\* The leftmost index of a set of match positions.
Leftmost(hits) == CHOOSE i \in hits : \A j \in hits : i <= j

extractRoutineCall(callPrefix) ==
    LET prefix    == TrimEnd(callPrefix)
        idx       == 0..(Len(prefix) - 1)
        extrinsic == {i \in idx : /\ CharAt(prefix, i) = "$"
                                  /\ CharAt(prefix, i + 1) = "$"
                                  /\ LabelAndRoutineAt(prefix, i + 2) # undefined}
        doLabel   == {i \in idx : /\ DoWordAt(prefix, i)
                                  /\ IsSpace(CharAt(prefix, i + 2))
                                  /\ LabelAndRoutineAt(prefix, SkipSpaces(prefix, i + 2)) # undefined}
        doRoutine == {i \in idx :
                        /\ DoWordAt(prefix, i)
                        /\ CharAt(prefix, SkipSpaces(prefix, i + 2)) = "^"
                        /\ LET k == SkipSpaces(prefix, SkipSpaces(prefix, i + 2) + 1)
                           IN  IsIdentStart(CharAt(prefix, k)) /\ IdentEnd(prefix, k + 1) = Len(prefix)}
    IN  IF extrinsic # {}
        THEN LabelAndRoutineAt(prefix, Leftmost(extrinsic) + 2)
        ELSE IF doLabel # {}
        THEN LabelAndRoutineAt(prefix, SkipSpaces(prefix, Leftmost(doLabel) + 2))
        ELSE IF doRoutine # {}
        THEN LET i == Leftmost(doRoutine)
                 k == SkipSpaces(prefix, SkipSpaces(prefix, i + 2) + 1)
             IN  Some([label |-> JSSlice(prefix, k, Len(prefix)),
                       routine |-> JSSlice(prefix, k, Len(prefix))])
        ELSE undefined

RECURSIVE ParameterInfosFrom(_, _, _)
\* The forEach of routineParameterInfos from parameter idx (1-based) on.
ParameterInfosFrom(params, idx, currentPos) ==
    IF idx > Len(params) THEN <<>>
    ELSE LET end == currentPos + Len(Trim(params[idx]))
         IN  <<<<currentPos, end>>>>
             \o ParameterInfosFrom(params, idx + 1, IF idx < Len(params) THEN end + 2 ELSE end)

\* routineParameterInfos, were the first span to start at the "(" itself.
routineParameterInfosFromParen(signatureLabel, params) ==
    IF Len(params) = 0 THEN <<>>
    ELSE ParameterInfosFrom(params, 1, IndexOf(signatureLabel, "("))

\* Build the ParameterInformation array for a routine signature label.
routineParameterInfos(signatureLabel, params) ==
    IF Len(params) = 0 THEN <<>>
    ELSE ParameterInfosFrom(params, 1, IndexOf(signatureLabel, "(") + 1)

\* IsLabelLine, were any line starting with the label taken.
IsLabelLineByPrefix(line, label) == StartsWith(line, label)

\* Whether a routine line is the label line of label.
IsLabelLine(line, label) ==
    /\ StartsWith(line, label)
    /\ LET afterLabel == JSSlice(line, Len(label), Len(line))
       IN  \/ Len(TrimEnd(line)) = Len(label)
           \/ StartsWith(afterLabel, <<" ">>)
           \/ StartsWith(afterLabel, <<"\t">>)
           \/ StartsWith(afterLabel, <<"(">>)
           \/ StartsWith(afterLabel, <<";">>)
           \/ StartsWith(afterLabel, <<"#", "#", ";">>)
           \/ StartsWith(afterLabel, <<"/", "/">>)
           \/ StartsWith(afterLabel, <<"/", "*">>)

\* Index (0-based) of the first label line, or -1.
LabelLineIndex(routineLines, label) ==
    LET hits == {i \in 0..(Len(routineLines) - 1) : IsLabelLine(routineLines[i + 1], label)}
    IN  IF hits = {} THEN -1 ELSE Leftmost(hits)

RECURSIVE ContinuationScan(_, _, _)
\* The while loop joining continuation lines: the remainder when the loop ends.
ContinuationScan(routineLines, searchIdx, remainder) ==
    IF IndexOf(remainder, ")") # -1 THEN remainder
    ELSE IF searchIdx + 1 >= Len(routineLines) THEN remainder
    ELSE LET nextLineRaw == stripRoutineComment(routineLines[searchIdx + 2])
             nextTrimmed == Trim(nextLineRaw)
         IN  IF Len(nextLineRaw) > 0 /\ IsIdentStart(CharAt(nextLineRaw, 0))
             THEN remainder
             ELSE IF Len(nextTrimmed) > 0
             THEN ContinuationScan(routineLines, searchIdx + 1,
                      (IF Len(remainder) > 0 /\ ~EndsWith(remainder, <<" ">>)
                          /\ ~StartsWith(nextTrimmed, <<",">>)
                       THEN Append(remainder, " ") ELSE remainder) \o nextTrimmed)
             ELSE ContinuationScan(routineLines, searchIdx + 1, remainder)

\* RoutineParamString, were a list that never closes to give no parameter text.
RoutineParamStringClosedOnly(routineLines, labelLineIndex) ==
    LET noComment    == stripRoutineComment(routineLines[labelLineIndex + 1])
        openParenIdx == IndexOf(noComment, "(")
        remainder    == ContinuationScan(routineLines, labelLineIndex,
                                         JSSlice(noComment, openParenIdx + 1, Len(noComment)))
    IN  IF openParenIdx < 0 \/ IndexOf(remainder, ")") = -1 THEN <<>>
        ELSE JSSlice(remainder, 0, IndexOf(remainder, ")"))

\* The parameter text of the label line at labelLineIndex.
RoutineParamString(routineLines, labelLineIndex) ==
    LET noComment    == stripRoutineComment(routineLines[labelLineIndex + 1])
        openParenIdx == IndexOf(noComment, "(")
        remainder    == ContinuationScan(routineLines, labelLineIndex,
                                         JSSlice(noComment, openParenIdx + 1, Len(noComment)))
        closeIdx     == IndexOf(remainder, ")")
    IN  IF openParenIdx < 0 THEN <<>>
        ELSE IF closeIdx # -1 THEN JSSlice(remainder, 0, closeIdx)
        ELSE Trim(remainder)

\* The signature built from the label line, once the routine's lines are known.
RoutineSignature(routineLines, label) ==
    LET params         == splitRoutineParams(RoutineParamString(routineLines, LabelLineIndex(routineLines, label)))
        signatureLabel == label \o <<"(">> \o Join(params, <<",", " ">>) \o <<")">>
    IN  [label |-> signatureLabel,
         parameters |-> routineParameterInfos(signatureLabel, params),
         documentation |-> undefined]

\* s.replace(/[<&>]/g, entity)
esc(s) ==
    [i \in 1..Len(s) |-> CASE s[i] = "<" -> "&lt;"
                           [] s[i] = ">" -> "&gt;"
                           [] s[i] = "&" -> "&amp;"
                           [] OTHER -> s[i]]

\* getParamText of buildRoutineDocumentation: the text of parameter i (0-based).
getParamText(signature, i) ==
    IF i < 0 \/ i >= Len(signature.parameters) THEN <<>>
    ELSE LET info == signature.parameters[i + 1]
         IN  IF info[1] < info[2] THEN JSSlice(signature.label, info[1], info[2]) ELSE <<>>

\* The grave accent that delimits inline code, as one character of the alphabet.
Backquote == "grave"

\* text in inline code, bold when boldParam.
InlineCode(text, boldParam) ==
    IF boldParam THEN <<"*", "*", Backquote>> \o text \o <<Backquote, "*", "*">>
    ELSE <<Backquote>> \o text \o <<Backquote>>

\* renderSignatureWithInlineParam of buildRoutineDocumentation.
renderSignatureWithInlineParam(signature, i, boldParam) ==
    IF i < 0 \/ i >= Len(signature.parameters) THEN esc(signature.label)
    ELSE LET info == signature.parameters[i + 1]
         IN  IF info[1] < info[2]
             THEN esc(JSSlice(signature.label, 0, info[1]))
                  \o InlineCode(esc(JSSlice(signature.label, info[1], info[2])), boldParam)
                  \o esc(JSSlice(signature.label, info[2], Len(signature.label)))
             ELSE esc(signature.label)

\* The options the engine passes: signature help, and hover without header.
SignatureOptions == [context |-> "signature", boldParameter |-> FALSE, showHeaderInHover |-> TRUE]

HoverOptions == [context |-> "hover", boldParameter |-> FALSE, showHeaderInHover |-> FALSE]

\* clamp of buildRoutineDocumentation.
DocClamp(signature, i) ==
    IF Len(signature.parameters) > 0
    THEN Min(Max(i, 0), Len(signature.parameters) - 1) ELSE 0

\* activeIndex is an optional number: activeIndex ?? 0.
OrZero(n) == IF n = undefined THEN 0 ELSE n[1]

buildRoutineDocumentation(signature, activeIndex, options) ==
    LET idx    == DocClamp(signature, OrZero(activeIndex))
        pText  == getParamText(signature, idx)
        header == IF options.context = "hover" /\ options.showHeaderInHover
                  THEN <<<<Backquote, Backquote, Backquote>>, signature.label,
                         <<Backquote, Backquote, Backquote>>, <<>>>>
                  ELSE <<>>
        middle == IF options.context # "signature"
                  THEN <<renderSignatureWithInlineParam(signature, idx, options.boldParameter), <<>>>>
                  ELSE <<>>
        last   == IF pText # <<>>
                  THEN <<"Parametro na origem:", " ">> \o InlineCode(esc(pText), options.boldParameter)
                  ELSE <<"Parametro na origem:">>
    IN  Markdown(Join(header \o middle \o <<last>>, <<"\n">>))

\* ------------------------------------------------------------------------
\* Collaborators outside the engine, modelled at their interface
\* ------------------------------------------------------------------------

RECURSIVE CountTopLevelCommas(_, _, _, _)
\* Commas of text[i..] outside quoted regions and outside nested parentheses.
CountTopLevelCommas(text, i, inQuote, depth) ==
    IF i > Len(text) THEN 0
    ELSE LET ch == text[i]
         IN  IF ch = "\"" THEN CountTopLevelCommas(text, i + 1, ~inQuote, depth)
             ELSE IF inQuote THEN CountTopLevelCommas(text, i + 1, inQuote, depth)
             ELSE IF ch = "(" THEN CountTopLevelCommas(text, i + 1, inQuote, depth + 1)
             ELSE IF ch = ")" THEN CountTopLevelCommas(text, i + 1, inQuote, depth - 1)
             ELSE IF ch = "," /\ depth = 0 THEN 1 + CountTopLevelCommas(text, i + 1, inQuote, depth)
             ELSE CountTopLevelCommas(text, i + 1, inQuote, depth)

\* The raw index of the parameter being edited, given the text typed since the
\* start of the argument list.
determineActiveParam(text) == CountTopLevelCommas(text, 1, FALSE, 0)

\* Whether token tkn of line ln is the punctuation token paren.
IsParenToken(d, p, ln, tkn, paren) ==
    /\ p[ln + 1][tkn + 1].l = cos_langindex
    /\ p[ln + 1][tkn + 1].s = cos_delim_attrindex
    /\ TokenText(d, p, ln, tkn) = <<paren>>

RECURSIVE OpenParenScan(_, _, _, _, _)
\* Walk backward from token tkn of line ln with numclosed closers pending.
OpenParenScan(d, p, ln, tkn, numclosed) ==
    IF ln < 0 THEN <<-1, -1>>
    ELSE IF tkn < 0
    THEN IF ln = 0 THEN <<-1, -1>>
         ELSE OpenParenScan(d, p, ln - 1, Len(p[ln]) - 1, numclosed)
    ELSE IF IsParenToken(d, p, ln, tkn, ")") THEN OpenParenScan(d, p, ln, tkn - 1, numclosed + 1)
    ELSE IF IsParenToken(d, p, ln, tkn, "(")
    THEN IF numclosed = 0 THEN <<ln, tkn>>
         ELSE OpenParenScan(d, p, ln, tkn - 1, numclosed - 1)
    ELSE OpenParenScan(d, p, ln, tkn - 1, numclosed)

\* The nearest unmatched "(" before the given token of the given line, or <<-1, -1>>.
findOpenParen(d, p, line, token) == OpenParenScan(d, p, line, token - 1, 0)

\* The formal spec as displayed: wrapped in parentheses.
beautifyFormalSpec(FormalSpec) == <<"(">> \o FormalSpec \o <<")">>

\* The Markdown rendering of a class-reference description.
documaticHtmlToMarkdown(html) == <<"md:">> \o html

\* The full range of a token: here the token's own range.
findFullRange(line, p, tkn) ==
    [start |-> Position(line, p[line + 1][tkn + 1].p),
     end   |-> Position(line, p[line + 1][tkn + 1].p + p[line + 1][tkn + 1].c)]

\* The compilation context of the class or routine around a line.
getMacroContext(d, line) == [docname |-> d.uri, mode |-> "maccon"]

\* ------------------------------------------------------------------------
\* Documents the requests are made on
\* ------------------------------------------------------------------------

\* A class document:   $$$M(a,"b",c)
DocMacro ==
    [uri |-> "Macro.cls", languageId |-> "objectscript-class",
     lines |-> << <<"$", "$", "$", "M", "(", "a", ",", "\"", "b", "\"", ",", "c", ")">> >>,
     parsed |-> << << Tok(0, 4, cos_langindex, cos_macro_attrindex),
                      Tok(4, 1, cos_langindex, cos_delim_attrindex),
                      Tok(5, 1, cos_langindex, "localvar"),
                      Tok(6, 1, cos_langindex, cos_delim_attrindex),
                      Tok(7, 3, cos_langindex, cos_str_attrindex),
                      Tok(10, 1, cos_langindex, cos_delim_attrindex),
                      Tok(11, 1, cos_langindex, "localvar"),
                      Tok(12, 1, cos_langindex, cos_delim_attrindex) >> >>,
     cursorLines |-> {0}]

\* A class document:   ..m(f(a),b)
DocMethod ==
    [uri |-> "Method.cls", languageId |-> "objectscript-class",
     lines |-> << <<".", ".", "m", "(", "f", "(", "a", ")", ",", "b", ")">> >>,
     parsed |-> << << Tok(0, 2, cos_langindex, "objdot"),
                      Tok(2, 1, cos_langindex, cos_method_attrindex),
                      Tok(3, 1, cos_langindex, cos_delim_attrindex),
                      Tok(4, 1, cos_langindex, "localvar"),
                      Tok(5, 1, cos_langindex, cos_delim_attrindex),
                      Tok(6, 1, cos_langindex, "localvar"),
                      Tok(7, 1, cos_langindex, cos_delim_attrindex),
                      Tok(8, 1, cos_langindex, cos_delim_attrindex),
                      Tok(9, 1, cos_langindex, "localvar"),
                      Tok(10, 1, cos_langindex, cos_delim_attrindex) >> >>,
     cursorLines |-> {0}]

\* A class document:   ..%New(a,b)
DocNew ==
    [uri |-> "New.cls", languageId |-> "objectscript-class",
     lines |-> << <<".", ".", "%", "N", "e", "w", "(", "a", ",", "b", ")">> >>,
     parsed |-> << << Tok(0, 2, cos_langindex, "objdot"),
                      Tok(2, 4, cos_langindex, cos_method_attrindex),
                      Tok(6, 1, cos_langindex, cos_delim_attrindex),
                      Tok(7, 1, cos_langindex, "localvar"),
                      Tok(8, 1, cos_langindex, cos_delim_attrindex),
                      Tok(9, 1, cos_langindex, "localvar"),
                      Tok(10, 1, cos_langindex, cos_delim_attrindex) >> >>,
     cursorLines |-> {0}]

\* A class document:   ..%Open(a)
DocOpen ==
    [uri |-> "Open.cls", languageId |-> "objectscript-class",
     lines |-> << <<".", ".", "%", "O", "p", "e", "n", "(", "a", ")">> >>,
     parsed |-> << << Tok(0, 2, cos_langindex, "objdot"),
                      Tok(2, 5, cos_langindex, cos_method_attrindex),
                      Tok(7, 1, cos_langindex, cos_delim_attrindex),
                      Tok(8, 1, cos_langindex, "localvar"),
                      Tok(9, 1, cos_langindex, cos_delim_attrindex) >> >>,
     cursorLines |-> {0}]

\* A routine calling a label of another routine over two lines:
\*   ROUTINE R
\*    do L^X(a,
\*   (b),c)
DocRoutine ==
    [uri |-> "R.mac", languageId |-> "objectscript",
     lines |-> << <<"R", "O", "U", "T", "I", "N", "E", " ", "R">>,
                  <<" ", "d", "o", " ", "L", "^", "X", "(", "a", ",">>,
                  <<"(", "b", ")", ",", "c", ")">> >>,
     parsed |-> << << Tok(0, 7, cos_langindex, "header"),
                      Tok(8, 1, cos_langindex, "rtnname") >>,
                   << Tok(1, 2, cos_langindex, "command"),
                      Tok(4, 1, cos_langindex, "label"),
                      Tok(5, 1, cos_langindex, cos_delim_attrindex),
                      Tok(6, 1, cos_langindex, "rtnname"),
                      Tok(7, 1, cos_langindex, cos_delim_attrindex),
                      Tok(8, 1, cos_langindex, "localvar"),
                      Tok(9, 1, cos_langindex, cos_delim_attrindex) >>,
                   << Tok(0, 1, cos_langindex, cos_delim_attrindex),
                      Tok(1, 1, cos_langindex, "localvar"),
                      Tok(2, 1, cos_langindex, cos_delim_attrindex),
                      Tok(3, 1, cos_langindex, cos_delim_attrindex),
                      Tok(4, 1, cos_langindex, "localvar"),
                      Tok(5, 1, cos_langindex, cos_delim_attrindex) >> >>,
     cursorLines |-> {1, 2}]

\* A routine with a label L, a macro named like the label, an empty line,
\* a line in another language and a comment:
\*   ROUTINE R
\*   L(p)
\*   $$$L(a,b)
\*
\*   <b>(
\*    ;(
DocLocal ==
    [uri |-> "R.mac", languageId |-> "objectscript",
     lines |-> << <<"R", "O", "U", "T", "I", "N", "E", " ", "R">>,
                  <<"L", "(", "p", ")">>,
                  <<"$", "$", "$", "L", "(", "a", ",", "b", ")">>,
                  <<>>,
                  <<"<", "b", ">", "(">>,
                  <<" ", ";", "(">> >>,
     parsed |-> << << Tok(0, 7, cos_langindex, "header"),
                      Tok(8, 1, cos_langindex, "rtnname") >>,
                   << Tok(0, 1, cos_langindex, "label"),
                      Tok(1, 1, cos_langindex, cos_delim_attrindex),
                      Tok(2, 1, cos_langindex, "localvar"),
                      Tok(3, 1, cos_langindex, cos_delim_attrindex) >>,
                   << Tok(0, 4, cos_langindex, cos_macro_attrindex),
                      Tok(4, 1, cos_langindex, cos_delim_attrindex),
                      Tok(5, 1, cos_langindex, "localvar"),
                      Tok(6, 1, cos_langindex, cos_delim_attrindex),
                      Tok(7, 1, cos_langindex, "localvar"),
                      Tok(8, 1, cos_langindex, cos_delim_attrindex) >>,
                   <<>>,
                   << Tok(0, 3, "html", "tag"),
                      Tok(3, 1, "html", cos_delim_attrindex) >>,
                   << Tok(1, 2, cos_langindex, cos_comment_attrindex) >> >>,
     cursorLines |-> {2, 3, 4, 5}]

Documents == {DocMacro, DocMethod, DocNew, DocOpen, DocRoutine, DocLocal}

\* Every cursor position on the lines of d that requests are made on.
CursorPositions(d) ==
    {Position(ln, ch) : <<ln, ch>> \in
        UNION {{<<l, c>> : c \in 0..Len(d.lines[l + 1])} : l \in d.cursorLines}}

\* ------------------------------------------------------------------------
\* Remote responses
\* ------------------------------------------------------------------------

\* A response whose data.result.content is present.
Envelope(content) == [wellformed |-> TRUE, content |-> content]

\* A response that lacks data.result (or its content).
Malformed == [wellformed |-> FALSE, content |-> <<>>]

Row(formalSpec, returnType, description, stub, origin) ==
    [FormalSpec |-> formalSpec, ReturnType |-> returnType, Description |-> description,
     Stub |-> stub, Origin |-> origin]

MacroSignatureResponses ==
    {undefined, Some(Malformed), Some(Envelope(<<>>)), Some(Envelope(<<"(", ")">>)),
     Some(Envelope(<<"(", "w", " ", ",", "x", ",", "y", ",", "z", ")">>)),
     Some(Envelope(<<"x", ",", "y">>))}

\* The expansion service answers nothing, or one line showing the arguments.
MacroExpansionResponses(arguments) ==
    {undefined, Some(Malformed), Some(Envelope(<<>>)), Some(Envelope(<<arguments \o <<" ">>>>))}

BaseClasses == {<<>>, <<"C">>}

MethodRows ==
    {<<>>,
     <<Row(<<"x", ",", "y">>, <<"T">>, <<"d">>, <<>>, "C")>>,
     <<Row(<<"x">>, <<>>, <<"d">>, <<>>, "C")>>,
     <<Row(<<>>, <<>>, <<"d">>, <<>>, "C")>>,
     <<Row(<<>>, <<>>, <<>>, <<"P", ".", "G", ".", "a">>, "C")>>}

NewRows ==
    {<<>>,
     <<Row(<<>>, <<>>, <<"n">>, <<>>, "%Library.RegisteredObject")>>,
     <<Row(<<>>, <<>>, <<"n">>, <<>>, "%Library.RegisteredObject"),
       Row(<<>>, <<>>, <<>>, <<>>, "%Library.RegisteredObject")>>,
     <<Row(<<>>, <<>>, <<"n">>, <<>>, "%Library.RegisteredObject"),
       Row(<<"x", ",", "y">>, <<"S">>, <<" ">>, <<>>, "C")>>,
     <<Row(<<>>, <<>>, <<"n">>, <<>>, "%Library.RegisteredObject"),
       Row(<<>>, <<>>, <<"h">>, <<>>, "C")>>}

QueryResponses(member) ==
    {undefined, Some(Malformed)}
    \cup {Some(Envelope(rows)) : rows \in IF member = <<"%", "N", "e", "w">> THEN NewRows ELSE MethodRows}

StubResponses ==
    {undefined, Some(Envelope(<<>>)),
     Some(Envelope(<<Row(<<"k">>, <<"T">>, <<"s">>, <<>>, "C")>>)),
     Some(Envelope(<<Row(<<>>, <<>>, <<"s">>, <<>>, "C")>>))}

IndexResponses ==
    {undefined, Some(Malformed), Some(Envelope(<<>>)),
     Some(Envelope(<<[status |-> "error", others |-> <<>>]>>)),
     Some(Envelope(<<[status |-> "", others |-> <<>>]>>)),
     Some(Envelope(<<[status |-> "", others |-> <<<<"X", ".", "M", "A", "C">>>>]>>))}

DefinitionUris == {<<>>, <<"u">>}

\* What getTextForUri yields: nothing, or the lines of routine X.
RoutineTexts ==
    {<<>>,
     << <<"X">>, <<"L", "(", "p", ",", "q", ")", " ", ";", "c">> >>,
     << <<"X">>, <<"L", "L", "(", "z", ")">> >>}

\* ------------------------------------------------------------------------
\* The signature-help session and the requests in progress
\* ------------------------------------------------------------------------

VARIABLES
    doc,                              \* the open document and its token arrays
    signatureHelpMacroCache,          \* optional macro context
    signatureHelpDocumentationCache,  \* optional [type, doc]
    signatureHelpStartPosition,       \* optional Position
    inflight,                         \* the requests being processed, oldest first
    returned,                         \* optional: the request that has just completed
    clientSignatureHelp,              \* optional: the signature help the client shows
    requests,                         \* the number of requests received so far
    sessionKind,                      \* the resolver that recorded the start position
    hover,                            \* optional: the last hover request and its answer
    formalSpecText,                   \* a formal spec given to the parameter splitter
    paramsArr,                        \* optional: the spans the splitter returned for it
    argumentList,                     \* an argument list given to emphasizeArgument
    argumentNumber,                   \* the one-indexed argument to emphasize in it
    emphasizedList,                   \* optional: what emphasizeArgument returned
    routineSource,                    \* the lines of a routine given to the routine resolver
    labelDetails,                     \* optional: the label line and signature it found
    parameterText,                    \* a parameter text given to splitRoutineParams
    splitParams,                      \* optional: the parameters it returned
    documentationInput,               \* the arguments given to buildRoutineDocumentation
    routineDocumentation,             \* optional: the documentation it returned
    skipUris,                         \* formatting control: the URIs with a pending skip
    autoSkipUris,                     \* those whose pending skip was scheduled
    manualAllowances,                 \* URI -> expiry time of its manual allowance
    compileBlocks,                    \* URI -> expiry time of its compile block
    clock,                            \* what Date.now() returns
    formatLog                         \* what has been called on the formatting control

documentationVars == <<documentationInput, routineDocumentation>>

\* The state of the client's formatting control.
formatVars == <<skipUris, autoSkipUris, manualAllowances, compileBlocks, clock, formatLog>>

\* The inputs and results of the pure functions studied on their own, and the
\* formatting control, which the provider never touches.
functionVars == <<formalSpecText, paramsArr, argumentList, argumentNumber, emphasizedList,
                  routineSource, labelDetails, parameterText, splitParams,
                  documentationVars, formatVars>>

vars == <<doc, signatureHelpMacroCache, signatureHelpDocumentationCache,
          signatureHelpStartPosition, inflight, returned, clientSignatureHelp, requests,
          sessionKind, hover, functionVars>>

\* The three module-level variables of the provider, as one record.
Globals ==
    [start |-> signatureHelpStartPosition,
     cache |-> signatureHelpDocumentationCache,
     macro |-> signatureHelpMacroCache]

\* The outcome of one step of a request: the request and the new globals.
Out(req, start, cache, macro) == [req |-> req, start |-> start, cache |-> cache, macro |-> macro]

Keep(req, g) == Out(req, g.start, g.cache, g.macro)

\* return result
Done(r, result) == [r EXCEPT !.pc = "done", !.result = result]

\* The errors the handler can raise: reading a field of a response that lacks its
\* result, writing the documentation of a cache that is undefined, spreading a
\* macro context that is undefined, and reading the token at index -1.
ResponseTypeError == "TypeError: respdata.data.result is undefined"

CacheTypeError == "TypeError: signatureHelpDocumentationCache is undefined"

MacroContextTypeError == "TypeError: expinputdata.arguments is undefined"

TokenTypeError == "TypeError: parsed[sigstartln][-1] is undefined"

\* An exception leaves the handler.
Throw(r, error) == [r EXCEPT !.pc = "done", !.threw = Some(error)]

\* The handler is suspended at an await of a remote query. The kind and the
\* character of the trigger are read before the first such await only, and are
\* dropped here, as is the session state the request found.
Await(r, pc, call) ==
    [r EXCEPT !.pc = pc, !.log = Append(@, call), !.before = undefined,
              !.triggerKind = "", !.triggerCharacter = ""]

SignatureInformation(label, parameters) ==
    [label |-> label, parameters |-> parameters, documentation |-> undefined]

SignatureHelp(sig, activeParameter) ==
    [signatures |-> <<sig>>, activeSignature |-> 0, activeParameter |-> activeParameter]

\* help.signatures[0].documentation = documentation
WithDocumentation(help, documentation) ==
    [help EXCEPT !.signatures = <<[help.signatures[1] EXCEPT !.documentation = documentation]>>]

\* signatureHelpDocumentationCache?.doc
CacheDoc(cache) == IF cache = undefined THEN undefined ELSE cache[1].doc

DocCache(type, content) == Some([type |-> type, doc |-> Some(content)])

\* Math.min(Math.max(i, 0), n - 1)
Clamp(i, n) == Min(Max(i, 0), n - 1)

\* TokenScan, were the end of a token's span exclusive.
RECURSIVE TokenScanExclusive(_, _, _, _)
TokenScanExclusive(tokens, character, i, thistoken) ==
    IF i >= Len(tokens) THEN thistoken
    ELSE IF character >= tokens[i + 1].p /\ character < tokens[i + 1].p + tokens[i + 1].c
    THEN i
    ELSE TokenScanExclusive(tokens, character, i + 1, i)

\* The loop over the tokens of the cursor's line, from token i on: thistoken is
\* set to each index in turn and the loop breaks at the first token whose span
\* holds the cursor column.
RECURSIVE TokenScan(_, _, _, _)
TokenScan(tokens, character, i, thistoken) ==
    IF i >= Len(tokens) THEN thistoken
    ELSE IF character >= tokens[i + 1].p /\ character <= tokens[i + 1].p + tokens[i + 1].c
    THEN i
    ELSE TokenScan(tokens, character, i + 1, i)

\* The token context locator: the index of the token under the cursor, or -1.
thistokenAt(tokens, character) == TokenScan(tokens, character, 0, -1)

\* The one-character string getText returns for the character before the cursor.
CharOf(text) == IF text = <<>> THEN "" ELSE text[1]

\* Whether the cursor context disqualifies the request (wrong language, or in a string).
NotApplicable(d, pos, thistoken) ==
    \/ d.parsed[pos.line + 1][thistoken + 1].l # cos_langindex
    \/ CountChar(GetText(d, Position(pos.line, 0), pos), "\"") % 2 = 1

\* NotComputed, were it to end the session.
NotComputedEndingSession(r, g) ==
    IF r.activeSignatureHelp # undefined
    THEN Out(Done(r, Some(WithDocumentation(r.activeSignatureHelp[1], CacheDoc(g.cache)))),
             undefined, undefined, g.macro)
    ELSE Out(Done(r, undefined), undefined, undefined, g.macro)

\* NotComputed, were it to return nothing.
NotComputedReturningNothing(r, g) == Keep(Done(r, undefined), g)

\* What a request in such a context returns: the help the client shows, if any.
NotComputed(r, g) ==
    IF r.activeSignatureHelp # undefined
    THEN Keep(Done(r, Some(WithDocumentation(r.activeSignatureHelp[1], CacheDoc(g.cache)))), g)
    ELSE Keep(Done(r, undefined), g)

InCommentOrString(attr) ==
    attr \in {cos_comment_attrindex, cos_dcom_attrindex, cos_str_attrindex}

IsMacroToken(t) == t.l = cos_langindex /\ t.s = cos_macro_attrindex

IsMemberToken(t) ==
    t.l = cos_langindex /\ (t.s = cos_method_attrindex \/ t.s = cos_mem_attrindex)

\* Just after the "(" that is token tkn of line ln.
AfterParen(d, ln, tkn) == Position(ln, d.parsed[ln + 1][tkn + 1].p + 1)

\* Choose the resolver for the callee before the "(" at (parenLine, parenToken).
Resolve(r, g, d, branch, parenLine, parenToken) ==
    LET callee == d.parsed[parenLine + 1][parenToken]
        r1     == [r EXCEPT !.branch = branch, !.parenLine = parenLine, !.parenToken = parenToken]
    IN  IF IsMacroToken(callee)
        THEN Keep(Await([r1 EXCEPT !.macroname =
                            JSSlice(GetText(d, findFullRange(parenLine, d.parsed, parenToken - 1).start,
                                            findFullRange(parenLine, d.parsed, parenToken - 1).end),
                                    3, Len(d.lines[parenLine + 1]))],
                        "macroSignature", "getmacrosignature"), g)
        ELSE IF IsMemberToken(callee)
        THEN Keep(Await(r1, "member", "getClassMemberContext"), g)
        ELSE Keep(Await(r1, "routine", "getRoutineSignatureDetails"), g)

\* The "," / Invoked branch: find the enclosing call from scratch.
Rediscover(r, g, d, thistoken) ==
    LET found == findOpenParen(d, d.parsed, r.position.line, thistoken)
    IN  IF found[1] = -1 \/ found[2] = -1 THEN Keep(Done(r, undefined), g)
        ELSE IF found[2] = 0 THEN Keep(Throw(r, TokenTypeError), g)
        ELSE Resolve(r, g, d, "rediscover", found[1], found[2])

\* CloseSignature, were it to leave the documentation cache in place.
CloseSignatureKeepingDocumentation(r, g) == Out(Done(r, undefined), undefined, g.cache, g.macro)

\* The user closed the signature.
CloseSignature(r, g) == Out(Done(r, undefined), undefined, undefined, g.macro)

\* LacksActiveSignature, were it to clear the macro expansion context.
LacksActiveSignatureClearingMacro(r, g, d, thistoken) ==
    Out(Done(r, undefined), g.start, g.cache, undefined)

\* LacksActiveSignature, were it to look for the enclosing call.
LacksActiveSignatureRediscovering(r, g, d, thistoken) == Rediscover(r, g, d, thistoken)

\* Can't do anything with a retrigger that lacks an active signature.
LacksActiveSignature(r, g, d, thistoken) == Keep(Done(r, undefined), g)

\* Retrigger, were it to record the cursor position as the start of the signature.
RetriggerMovingStart(r, g, d, thistoken) ==
    IF r.activeSignatureHelp = undefined \/ g.start = undefined
    THEN LacksActiveSignature(r, g, d, thistoken)
    ELSE IF PrevChar(d, r.position) = <<")">>
    THEN CloseSignature(r, g)
    ELSE Out(Done(r, Some([r.activeSignatureHelp[1] EXCEPT !.activeParameter =
                              Some(determineActiveParam(GetText(d, g.start[1], r.position)))])),
             Some(r.position), g.cache, g.macro)

\* The retrigger branch: a request that continues the active session.
Retrigger(r, g, d, thistoken) ==
    IF r.activeSignatureHelp = undefined \/ g.start = undefined
    THEN LacksActiveSignature(r, g, d, thistoken)
    ELSE IF PrevChar(d, r.position) = <<")">>
    THEN CloseSignature(r, g)
    ELSE LET ap   == determineActiveParam(GetText(d, g.start[1], r.position))
             help == [r.activeSignatureHelp[1] EXCEPT !.activeParameter = Some(ap)]
             sig  == help.signatures[1]
         IN  IF g.cache = undefined THEN Keep(Done(r, Some(help)), g)
             ELSE IF g.cache[1].type = "macro"
             THEN IF g.macro = undefined THEN Keep(Throw(r, MacroContextTypeError), g)
                  ELSE Keep(Await([r EXCEPT !.branch = "retrigger", !.activeparam = Some(ap),
                                            !.expargs = emphasizeArgument(g.macro[1].arguments, ap + 1)],
                                  "retriggerExpansion", "getmacroexpansion"), g)
             ELSE IF g.cache[1].type = "routine"
             THEN LET boundedIndex == IF Len(sig.parameters) > 0
                                      THEN Some(Clamp(ap, Len(sig.parameters))) ELSE undefined
                      docContent   == buildRoutineDocumentation(sig, boundedIndex, SignatureOptions)
                  IN  Out(Done(r, Some(WithDocumentation(
                                   [help EXCEPT !.activeParameter = boundedIndex], Some(docContent)))),
                          g.start, Some([g.cache[1] EXCEPT !.doc = Some(docContent)]), g.macro)
             ELSE Keep(Done(r, Some(WithDocumentation(help, g.cache[1].doc))), g)

\* onSignatureHelp from its entry to its first remote await or its return.
Dispatch(r, g, d) ==
    LET pos       == r.position
        trig      == IF r.triggerKind = "Invoked" THEN CharOf(PrevChar(d, pos))
                     ELSE r.triggerCharacter
        r1        == [r EXCEPT !.triggerCharacter = trig]
        tokens    == d.parsed[pos.line + 1]
        thistoken == thistokenAt(tokens, pos.character)
    IN  IF thistoken = -1 THEN Keep(Done(r1, undefined), g)
        ELSE IF NotApplicable(d, pos, thistoken) THEN NotComputed(r1, g)
        ELSE IF r.isRetrigger /\ trig # "(" THEN Retrigger(r1, g, d, thistoken)
        ELSE IF trig = "(" /\ ~InCommentOrString(tokens[thistoken + 1].s) /\ thistoken > 0
        THEN Resolve(r1, g, d, "open", pos.line, thistoken)
        ELSE IF /\ ~r.isRetrigger
                /\ ~InCommentOrString(tokens[thistoken + 1].s)
                /\ (trig = "," \/ r.triggerKind = "Invoked")
        THEN Rediscover(r1, g, d, thistoken)
        ELSE Keep(Done(r1, undefined), g)

\* ------------------------------------------------------------------------
\* Macro resolver
\* ------------------------------------------------------------------------

\* The continuation after the getmacrosignature response.
MacroSignatureStep(r, g, d, respdata) ==
    IF respdata # undefined /\ ~respdata[1].wellformed THEN Keep(Throw(r, ResponseTypeError), g)
    ELSE IF respdata # undefined /\ respdata[1].content # <<>>
    THEN LET sigtext == MacroSigText(respdata[1].content)
             sig     == SignatureInformation(sigtext, formalSpecToParamsArr(sigtext))
             raw     == determineActiveParam(GetText(d, AfterParen(d, r.parenLine, r.parenToken), r.position))
             activeparam == IF r.branch = "open" THEN 0
                            ELSE IF Len(sig.parameters) > 0 THEN Clamp(raw, Len(sig.parameters))
                            ELSE raw
             maccon  == getMacroContext(d, r.parenLine)
         IN  Out(Await([r EXCEPT !.resolver = "macro",
                                 !.sig = Some(sig), !.activeparam = Some(activeparam),
                                 !.expargs = emphasizeArgument(sig.label, activeparam + 1)],
                       "macroExpansion", "getmacroexpansion"),
                 g.start, g.cache,
                 Some([docname |-> maccon.docname, macroname |-> r.macroname,
                       mode |-> maccon.mode, arguments |-> sig.label]))
    ELSE IF r.branch = "open"
    THEN Keep(Await(r, "routine", "getRoutineSignatureDetails"), g)
    ELSE Keep(Done(r, undefined), g)

\* The continuation after the getmacroexpansion response of a new macro signature.
MacroExpansionStep(r, g, d, exprespdata) ==
    IF exprespdata # undefined /\ ~exprespdata[1].wellformed THEN Keep(Throw(r, ResponseTypeError), g)
    ELSE LET hasdoc == exprespdata # undefined /\ Len(exprespdata[1].content) > 0
             cache  == IF hasdoc
                       THEN DocCache("macro", Markdown(markdownifyExpansion(exprespdata[1].content)))
                       ELSE g.cache
             sig    == IF hasdoc THEN [r.sig[1] EXCEPT !.documentation = cache[1].doc]
                       ELSE r.sig[1]
             start  == IF r.branch = "open" THEN r.position
                       ELSE AfterParen(d, r.parenLine, r.parenToken)
         IN  Out(Done(r, Some(SignatureHelp(sig, r.activeparam))), Some(start), cache, g.macro)

\* The continuation after the getmacroexpansion response of a retrigger.
RetriggerExpansionStep(r, g, exprespdata) ==
    LET help == [r.activeSignatureHelp[1] EXCEPT !.activeParameter = r.activeparam]
    IN  IF exprespdata # undefined /\ ~exprespdata[1].wellformed THEN Keep(Throw(r, ResponseTypeError), g)
        ELSE IF exprespdata # undefined /\ Len(exprespdata[1].content) > 0
        THEN IF g.cache = undefined THEN Keep(Throw(r, CacheTypeError), g)
             ELSE LET content == Some(Markdown(markdownifyExpansion(exprespdata[1].content)))
                  IN  Out(Done(r, Some(WithDocumentation(help, content))),
                          g.start, Some([g.cache[1] EXCEPT !.doc = content]), g.macro)
        ELSE Keep(Done(r, Some(help)), g)

\* ------------------------------------------------------------------------
\* Class-member resolver
\* ------------------------------------------------------------------------

RECURSIVE SplitOn(_, _)
\* s.split(ch)
SplitOn(s, ch) ==
    LET k == IndexOf(s, ch)
    IN  IF k = -1 THEN <<s>>
        ELSE <<JSSlice(s, 0, k)>> \o SplitOn(JSSlice(s, k + 1, Len(s)), ch)

NewMember == <<"%", "N", "e", "w">>

FactoryMembers == {<<"%", "O", "p", "e", "n">>, <<"%", "O", "p", "e", "n", "I", "d">>}

\* Whether the member query returned an array with at least one row.
HasRows(respdata) ==
    respdata # undefined /\ respdata[1].wellformed /\ Len(respdata[1].content) > 0

\* Whether the stub follow-up query is issued for the first row of the response.
StubQueryIssued(member, respdata) ==
    /\ HasRows(respdata)
    /\ member # NewMember
    /\ respdata[1].content[1].Stub # <<>>
    /\ LET stubarr == SplitOn(respdata[1].content[1].Stub, ".")
       IN  Len(stubarr) >= 3 /\ stubarr[3] \in {<<"i">>, <<"q">>, <<"a">>, <<"n">>}

\* The row the signature is built from, for a member other than %New.
MemberObject(member, respdata, stubrespdata) ==
    IF StubQueryIssued(member, respdata) /\ HasRows(stubrespdata)
    THEN stubrespdata[1].content[1]
    ELSE respdata[1].content[1]

\* MemberLabel, were the suffix left out.
MemberLabelWithoutSuffix(raw, suffix) == raw

\* label: the beautified formal spec and its " As ..." suffix.
MemberLabel(raw, suffix) ==
    IF suffix = <<>> THEN raw ELSE raw \o <<" ", "A", "s", " ">> \o suffix

\* The signature and description the provider builds from the member query,
\* or undefined when it builds none.
MemberSignature(member, baseclass, respdata, stubrespdata) ==
    IF ~HasRows(respdata) THEN undefined
    ELSE LET rows == respdata[1].content
         IN  IF member = NewMember
             THEN IF Len(rows) = 2 /\ rows[2].Origin # "%Library.RegisteredObject"
                  THEN LET raw == beautifyFormalSpec(rows[2].FormalSpec)
                       IN  Some([sig |-> SignatureInformation(MemberLabel(raw, baseclass),
                                                              formalSpecToParamsArr(raw)),
                                 description |-> rows[IF Len(Trim(rows[2].Description)) > 0
                                                      THEN 2 ELSE 1].Description])
                  ELSE undefined
             ELSE LET memobj == MemberObject(member, respdata, stubrespdata)
                      raw    == beautifyFormalSpec(memobj.FormalSpec)
                  IN  IF memobj.FormalSpec # <<>>
                      THEN Some([sig |-> SignatureInformation(
                                            MemberLabel(raw, IF member \in FactoryMembers THEN baseclass
                                                             ELSE memobj.ReturnType),
                                            formalSpecToParamsArr(raw)),
                                 description |-> memobj.Description])
                      ELSE undefined

\* The calls the member resolver makes after the member context is known.
MemberCalls(member, respdata) ==
    IF StubQueryIssued(member, respdata) THEN <<"query", "stubquery">> ELSE <<"query">>

\* The continuation of the member branch once its collaborators have answered.
MemberStep(r, g, d, baseclass, documentation, respdata, stubrespdata) ==
    LET member == TokenText(d, d.parsed, r.parenLine, r.parenToken - 1)
        found  == MemberSignature(member, baseclass, respdata, stubrespdata)
        r1     == [r EXCEPT !.log = @ \o MemberCalls(member, respdata)]
        r2     == [r1 EXCEPT !.resolver = "member"]
    IN  IF baseclass = <<>> THEN Keep(Done(r, undefined), g)
        ELSE IF found = undefined
        THEN IF r.branch = "open" THEN Keep(Await(r1, "routine", "getRoutineSignatureDetails"), g)
             ELSE Keep(Done(r1, undefined), g)
        ELSE LET cache == IF documentation
                          THEN DocCache("method", Markdown(documaticHtmlToMarkdown(found[1].description)))
                          ELSE g.cache
                 sig   == IF documentation THEN [found[1].sig EXCEPT !.documentation = cache[1].doc]
                          ELSE found[1].sig
                 raw   == determineActiveParam(GetText(d, AfterParen(d, r.parenLine, r.parenToken), r.position))
                 bounded == IF Len(sig.parameters) > 0 THEN Some(Clamp(raw, Len(sig.parameters)))
                            ELSE undefined
             IN  IF r.branch = "open"
                 THEN Out(Done(r2, Some(SignatureHelp(sig, Some(0)))), Some(r.position), cache, g.macro)
                 ELSE Out(Done(r2, IF member = NewMember THEN undefined
                                   ELSE Some(SignatureHelp(sig, bounded))),
                          Some(AfterParen(d, r.parenLine, r.parenToken)), cache, g.macro)

\* ------------------------------------------------------------------------
\* Routine resolver
\* ------------------------------------------------------------------------

UpperCase == <<"A", "B", "C", "D", "E", "F", "G", "H", "I", "J", "K", "L", "M",
               "N", "O", "P", "Q", "R", "S", "T", "U", "V", "W", "X", "Y", "Z">>

LowerCase == <<"a", "b", "c", "d", "e", "f", "g", "h", "i", "j", "k", "l", "m",
               "n", "o", "p", "q", "r", "s", "t", "u", "v", "w", "x", "y", "z">>

\* String.prototype.toLowerCase()
ToLowerCase(s) ==
    [i \in 1..Len(s) |->
        IF \E k \in 1..Len(UpperCase) : UpperCase[k] = s[i]
        THEN LowerCase[CHOOSE k \in 1..Len(UpperCase) : UpperCase[k] = s[i]]
        ELSE s[i]]

RoutineLanguages == {"objectscript", "objectscript-int"}

\* The name of the routine the document is, or the empty string.
CurrentRoutine(d) ==
    IF d.languageId \in RoutineLanguages /\ Len(d.parsed[1]) > 1
    THEN TokenText(d, d.parsed, 0, 1) ELSE <<>>

\* getRoutineSignatureDetails up to the choice of the routine's source:
\* the label, the routine name and whether the live buffer is scanned.
RoutineCall(d, parenLine, parenToken) ==
    LET callContext == extractRoutineCall(
                           GetText(d, Position(parenLine, 0),
                                   Position(parenLine, d.parsed[parenLine + 1][parenToken + 1].p)))
        routineName == IF callContext[1].routine = <<>> THEN CurrentRoutine(d)
                       ELSE callContext[1].routine
    IN  IF callContext = undefined THEN undefined
        ELSE IF routineName = <<>> THEN undefined
        ELSE Some([label |-> callContext[1].label, routineName |-> routineName,
                   local |-> routineName = CurrentRoutine(d) /\ d.languageId \in RoutineLanguages])

\* Whether the index response names a routine that can be fetched.
IndexFound(indexResp) ==
    /\ indexResp # undefined
    /\ indexResp[1].wellformed
    /\ Len(indexResp[1].content) > 0
    /\ indexResp[1].content[1].status = ""

\* The extension of the source variant that is fetched.
RoutineExtension(indexResp) ==
    IF \E k \in 1..Len(indexResp[1].content[1].others) :
           ToLowerCase(JSSlice(indexResp[1].content[1].others[k], -3,
                               Len(indexResp[1].content[1].others[k]))) = <<"m", "a", "c">>
    THEN ".mac" ELSE ".int"

\* The lines of an external routine, or undefined when a step of the fetch fails.
FetchedLines(indexResp, routineUri, text) ==
    IF ~IndexFound(indexResp) THEN undefined
    ELSE IF routineUri = <<>> THEN undefined
    ELSE IF Len(text) = 0 THEN undefined
    ELSE Some(text)

\* The calls made to fetch an external routine.
FetchCalls(indexResp, routineUri) ==
    IF ~IndexFound(indexResp) THEN <<"index">>
    ELSE IF routineUri = <<>> THEN <<"index", "createDefinitionUri" \o RoutineExtension(indexResp)>>
    ELSE <<"index", "createDefinitionUri" \o RoutineExtension(indexResp), "getTextForUri">>

\* getRoutineSignatureDetails once the routine's lines are known (or are not).
RoutineDetails(d, parenLine, parenToken, call, routineLines) ==
    IF call = undefined \/ routineLines = undefined THEN undefined
    ELSE IF LabelLineIndex(routineLines[1], call[1].label) = -1 THEN undefined
    ELSE Some([signature |-> RoutineSignature(routineLines[1], call[1].label),
               start |-> AfterParen(d, parenLine, parenToken)])

\* PreviousSignature, were it to return nothing.
PreviousSignatureDropped(r, g) == Keep(Done(r, undefined), g)

\* No resolver gave a signature on "(": the help the client shows, if any.
PreviousSignature(r, g) ==
    IF r.activeSignatureHelp # undefined
    THEN Keep(Done(r, Some(IF g.cache # undefined
                           THEN WithDocumentation(r.activeSignatureHelp[1], g.cache[1].doc)
                           ELSE r.activeSignatureHelp[1])), g)
    ELSE Keep(Done(r, undefined), g)

\* The continuation after getRoutineSignatureDetails.
RoutineStep(r, g, d, routineDetails) ==
    IF routineDetails = undefined
    THEN IF r.branch = "open" THEN PreviousSignature(r, g)
         ELSE Keep(Done(r, undefined), g)
    ELSE LET sig         == routineDetails[1].signature
             startPos    == routineDetails[1].start
             beforeStart == \/ r.position.line < startPos.line
                            \/ /\ r.position.line = startPos.line
                               /\ r.position.character < startPos.character
             activeParamValue == IF beforeStart THEN 0
                                 ELSE determineActiveParam(GetText(d, startPos, r.position))
             active      == IF Len(sig.parameters) = 0 THEN undefined
                            ELSE IF r.branch = "open" THEN Some(0)
                            ELSE Some(Clamp(activeParamValue, Len(sig.parameters)))
             docContent  == buildRoutineDocumentation(sig, active, SignatureOptions)
         IN  Out(Done([r EXCEPT !.resolver = "routine"],
                      Some(SignatureHelp([sig EXCEPT !.documentation = Some(docContent)], active))),
                 Some(startPos), DocCache("routine", docContent), g.macro)

\* ------------------------------------------------------------------------
\* Requests and the steps of their handlers
\* ------------------------------------------------------------------------

TriggerKinds == {"Invoked", "TriggerCharacter", "ContentChange"}

\* The characters whose typing makes the client send a request.
TriggerCharacters == {"(", ",", ")"}

\* The signature help the client may carry in a request: none, or the one it shows.
ActiveChoices == {undefined, clientSignatureHelp}

\* A request as it arrives: its parameters, then the handler's position and local
\* variables, its result, and a record of what it did: the session state it
\* found (before), the calls it made (log), the resolver that gave its signature,
\* and whether the signature was closed while it was suspended (stale).
NewRequest(position, triggerKind, triggerCharacter, isRetrigger, activeSignatureHelp, g) ==
    [position |-> position, triggerKind |-> triggerKind, triggerCharacter |-> triggerCharacter,
     isRetrigger |-> isRetrigger, activeSignatureHelp |-> activeSignatureHelp,
     pc |-> "start", branch |-> "none", parenLine |-> -1, parenToken |-> -1,
     macroname |-> <<>>, sig |-> undefined, activeparam |-> undefined,
     expargs |-> <<>>, result |-> undefined, threw |-> undefined,
     before |-> Some(g), log |-> <<>>, resolver |-> "none", stale |-> FALSE]

\* The resolver whose signature the recorded start position belongs to, after a
\* step with outcome out: "none" while no start position is recorded.
KindAfter(out) ==
    IF out.start = undefined THEN "none"
    ELSE IF out.req.pc = "done" /\ out.req.resolver # "none" THEN out.req.resolver
    ELSE sessionKind

\* Apply the outcome of a step of request i.
Apply(i, outcome) ==
    \E out \in {outcome} :
    /\ returned = undefined
    /\ signatureHelpStartPosition' = out.start
    /\ signatureHelpDocumentationCache' = out.cache
    /\ signatureHelpMacroCache' = out.macro
    /\ IF out.req.pc = "done"
       THEN /\ inflight' = SubSeq(inflight, 1, i - 1) \o SubSeq(inflight, i + 1, Len(inflight))
            /\ returned' = Some(out.req)
       ELSE /\ inflight' = [inflight EXCEPT ![i] = out.req]
            /\ UNCHANGED returned
    /\ sessionKind' = KindAfter(out)
    /\ UNCHANGED <<doc, clientSignatureHelp, requests, hover, functionVars>>

\* A signature-help request arrives, while fewer than limit requests are suspended
\* and fewer than max have been received, and runs to its first remote query or
\* to its return.
OnSignatureHelp(limit, max) ==
    /\ returned = undefined
    /\ Len(inflight) < limit
    /\ requests < max
    /\ requests' = requests + 1
    /\ \E position \in CursorPositions(doc), triggerKind \in TriggerKinds,
          isRetrigger \in BOOLEAN, activeSignatureHelp \in ActiveChoices :
          /\ triggerKind = "TriggerCharacter" => CharOf(PrevChar(doc, position)) \in TriggerCharacters
          /\ \E out \in {Dispatch(NewRequest(position, triggerKind,
                                             IF triggerKind = "TriggerCharacter"
                                             THEN CharOf(PrevChar(doc, position)) ELSE "undefined",
                                             isRetrigger, activeSignatureHelp, Globals),
                                  Globals, doc)} :
                 /\ signatureHelpStartPosition' = out.start
                 /\ signatureHelpDocumentationCache' = out.cache
                 /\ signatureHelpMacroCache' = out.macro
                 /\ IF out.req.pc = "done"
                    THEN /\ returned' = Some(out.req)
                         /\ inflight' = IF Globals.start # undefined /\ out.start = undefined
                                        THEN [j \in 1..Len(inflight) |->
                                                 [inflight[j] EXCEPT !.stale = TRUE]]
                                        ELSE inflight
                    ELSE inflight' = Append(inflight, out.req) /\ returned' = undefined
                 /\ sessionKind' = KindAfter(out)
    /\ UNCHANGED <<doc, clientSignatureHelp, hover, functionVars>>

\* The response of the request that has completed reaches the client, which shows
\* the signature help it holds, or none when it holds none or is an error.
Respond ==
    /\ returned # undefined
    /\ clientSignatureHelp' = IF returned[1].threw # undefined THEN undefined ELSE returned[1].result
    /\ returned' = undefined
    /\ UNCHANGED <<doc, signatureHelpMacroCache, signatureHelpDocumentationCache,
                   signatureHelpStartPosition, inflight, requests, sessionKind,
                   hover, functionVars>>

MacroSignatureResponse(i) ==
    /\ inflight[i].pc = "macroSignature"
    /\ \E respdata \in MacroSignatureResponses :
          Apply(i, MacroSignatureStep(inflight[i], Globals, doc, respdata))

MacroExpansionResponse(i) ==
    /\ inflight[i].pc = "macroExpansion"
    /\ \E exprespdata \in MacroExpansionResponses(inflight[i].expargs) :
          Apply(i, MacroExpansionStep(inflight[i], Globals, doc, exprespdata))

RetriggerExpansionResponse(i) ==
    /\ inflight[i].pc = "retriggerExpansion"
    /\ \E exprespdata \in MacroExpansionResponses(inflight[i].expargs) :
          Apply(i, RetriggerExpansionStep(inflight[i], Globals, exprespdata))

MemberResponse(i) ==
    /\ inflight[i].pc = "member"
    /\ LET member == TokenText(doc, doc.parsed, inflight[i].parenLine, inflight[i].parenToken - 1)
       IN  \E baseclass \in BaseClasses, documentation \in BOOLEAN,
              respdata \in QueryResponses(member) :
              \E stubrespdata \in IF StubQueryIssued(member, respdata) /\ baseclass # <<>>
                                  THEN StubResponses ELSE {undefined} :
                 Apply(i, MemberStep(inflight[i], Globals, doc, baseclass, documentation,
                                     respdata, stubrespdata))

\* The routine resolver when no remote fetch is needed.
RoutineLocal(i) ==
    /\ inflight[i].pc = "routine"
    /\ LET r    == inflight[i]
           call == RoutineCall(doc, r.parenLine, r.parenToken)
       IN  /\ (IF call = undefined THEN TRUE ELSE call[1].local)
           /\ Apply(i, RoutineStep(r, Globals, doc,
                       RoutineDetails(doc, r.parenLine, r.parenToken, call, Some(doc.lines))))

\* The routine resolver when the routine is fetched from the server.
RoutineRemote(i) ==
    /\ inflight[i].pc = "routine"
    /\ LET r    == inflight[i]
           call == RoutineCall(doc, r.parenLine, r.parenToken)
       IN  /\ (IF call = undefined THEN FALSE ELSE ~call[1].local)
           /\ \E indexResp \in IndexResponses :
              \E routineUri \in IF IndexFound(indexResp) THEN DefinitionUris ELSE {<<>>} :
              \E text \in IF routineUri # <<>> THEN RoutineTexts ELSE {<<>>} :
                 Apply(i, RoutineStep([r EXCEPT !.log = @ \o FetchCalls(indexResp, routineUri)],
                                      Globals, doc,
                                      RoutineDetails(doc, r.parenLine, r.parenToken, call,
                                                     FetchedLines(indexResp, routineUri, text))))

\* ------------------------------------------------------------------------
\* Hover
\* ------------------------------------------------------------------------

\* getMethodSignatureDetails once the member is known to be one, its class is
\* known and the member query has returned rows.
MethodSignatureFromRows(member, start, baseclass, respData, stubResp) ==
    IF member = NewMember
    THEN IF /\ Len(respData[1].content) = 2
            /\ respData[1].content[2].Origin # "%Library.RegisteredObject"
            /\ respData[1].content[2].FormalSpec # <<>>
         THEN Some([signature |-> SignatureInformation(
                                      MemberLabel(beautifyFormalSpec(respData[1].content[2].FormalSpec),
                                                  baseclass),
                                      formalSpecToParamsArr(
                                          beautifyFormalSpec(respData[1].content[2].FormalSpec))),
                    start |-> start])
         ELSE undefined
    ELSE IF MemberObject(member, respData, stubResp).FormalSpec = <<>> THEN undefined
    ELSE Some([signature |-> SignatureInformation(
                                 MemberLabel(beautifyFormalSpec(
                                                 MemberObject(member, respData, stubResp).FormalSpec),
                                             IF member \in FactoryMembers THEN baseclass
                                             ELSE MemberObject(member, respData, stubResp).ReturnType),
                                 formalSpecToParamsArr(beautifyFormalSpec(
                                     MemberObject(member, respData, stubResp).FormalSpec))),
               start |-> start])

\* getMethodSignatureDetails: the signature of the member called at the "(" that
\* is token parenToken of line parenLine, or undefined.
getMethodSignatureDetails(d, parenLine, parenToken, baseclass, respData, stubResp) ==
    IF parenToken = 0 THEN undefined
    ELSE IF ~IsMemberToken(d.parsed[parenLine + 1][parenToken]) THEN undefined
    ELSE IF baseclass = <<>> THEN undefined
    ELSE IF ~HasRows(respData) THEN undefined
    ELSE MethodSignatureFromRows(TokenText(d, d.parsed, parenLine, parenToken - 1),
                                 AfterParen(d, parenLine, parenToken),
                                 baseclass, respData, stubResp)

\* Whether position lies before startPos.
IsBefore(position, startPos) ==
    \/ position.line < startPos.line
    \/ position.line = startPos.line /\ position.character < startPos.character

\* The index of the parameter a hover at position is on, for a signature with n
\* parameters whose argument list starts at startPos.
HoverActiveIndex(d, position, startPos, n, beforeStart) ==
    IF IsBefore(position, startPos) THEN beforeStart
    ELSE IF n > 0 THEN Some(Clamp(determineActiveParam(GetText(d, startPos, position)), n))
    ELSE undefined

\* { contents, range: Range.create(position, position) }
HoverResult(contents, position) ==
    Some([contents |-> contents, range |-> [start |-> position, end |-> position]])

\* A hover that would answer from the documentation the session has cached.
\* The code builds the hover from the signature alone; see HoverOn.
HoverOnReusingSession(d, position, signature, startPos, beforeStart) ==
    IF CacheDoc(signatureHelpDocumentationCache) # undefined
    THEN HoverResult(CacheDoc(signatureHelpDocumentationCache)[1], position)
    ELSE HoverResult(buildRoutineDocumentation(
                         signature,
                         HoverActiveIndex(d, position, startPos, Len(signature.parameters),
                                          beforeStart),
                         HoverOptions),
                     position)

\* The hover built from the signature and the start of the argument list.
HoverOn(d, position, signature, startPos, beforeStart) ==
    HoverResult(buildRoutineDocumentation(
                    signature,
                    HoverActiveIndex(d, position, startPos, Len(signature.parameters), beforeStart),
                    HoverOptions),
                position)

\* getClassMethodHover from the details of the method on.
ClassMethodHoverOf(d, position, details) ==
    IF details = undefined THEN undefined
    ELSE HoverOn(d, position, details[1].signature, details[1].start,
                 IF Len(details[1].signature.parameters) > 0 THEN Some(0) ELSE undefined)

\* getClassMethodHover from the result of paren matching on.
ClassMethodHoverAt(d, position, found, baseclass, respData, stubResp) ==
    IF found[1] = -1 \/ found[2] = -1 THEN undefined
    ELSE ClassMethodHoverOf(d, position,
                            getMethodSignatureDetails(d, found[1], found[2], baseclass,
                                                      respData, stubResp))

getClassMethodHover(d, position, tokenIndex, baseclass, respData, stubResp) ==
    ClassMethodHoverAt(d, position, findOpenParen(d, d.parsed, position.line, tokenIndex),
                       baseclass, respData, stubResp)

\* getRoutineHover from the details of the routine on.
RoutineHoverOf(d, position, routineDetails) ==
    IF routineDetails = undefined THEN undefined
    ELSE HoverOn(d, position, routineDetails[1].signature, routineDetails[1].start, Some(0))

\* The lines getRoutineSignatureDetails scans for the call: the document's own,
\* or those fetched from the server.
RoutineLinesFor(d, call, fetched) ==
    IF call = undefined THEN undefined
    ELSE IF call[1].local THEN Some(d.lines)
    ELSE fetched

\* getRoutineHover from the routine call on.
RoutineHoverFor(d, position, found, call, fetched) ==
    RoutineHoverOf(d, position,
                   RoutineDetails(d, found[1], found[2], call, RoutineLinesFor(d, call, fetched)))

\* getRoutineHover from the result of paren matching on.
RoutineHoverAt(d, position, found, fetched) ==
    IF found[1] = -1 \/ found[2] = -1 THEN undefined
    ELSE RoutineHoverFor(d, position, found, RoutineCall(d, found[1], found[2]), fetched)

\* getRoutineHover, given what fetching the routine's lines from the server yields.
getRoutineHover(d, position, tokenIndex, fetched) ==
    IF tokenIndex < 0 \/ tokenIndex >= Len(d.parsed[position.line + 1]) THEN undefined
    ELSE IF d.parsed[position.line + 1][tokenIndex + 1].l # cos_langindex THEN undefined
    ELSE IF InCommentOrString(d.parsed[position.line + 1][tokenIndex + 1].s) THEN undefined
    ELSE RoutineHoverAt(d, position, findOpenParen(d, d.parsed, position.line, tokenIndex), fetched)

\* The token index a hover request names: that of the token under the cursor.
HoverTokenIndex(d, position) == thistokenAt(d.parsed[position.line + 1], position.character)

\* The answers of the class and of the queries, for a member.
MemberAnswers(member) ==
    {<<<<>>, undefined, undefined>>}
    \cup UNION {{<<<<"C">>, respData, stubResp>> :
                    stubResp \in IF StubQueryIssued(member, respData)
                                 THEN StubResponses ELSE {undefined}} :
                respData \in QueryResponses(member)}

\* What the collaborators of getClassMethodHover may answer, given what paren
\* matching finds: the base class, the member query and the stub query, where
\* the hover gets as far as asking.
ClassAnswersAt(d, found) ==
    IF found[1] = -1 \/ found[2] < 1 THEN {<<<<>>, undefined, undefined>>}
    ELSE IF ~IsMemberToken(d.parsed[found[1] + 1][found[2]]) THEN {<<<<>>, undefined, undefined>>}
    ELSE MemberAnswers(TokenText(d, d.parsed, found[1], found[2] - 1))

ClassAnswers(d, position) ==
    ClassAnswersAt(d, findOpenParen(d, d.parsed, position.line, HoverTokenIndex(d, position)))

\* What fetching a routine from the server may yield.
FetchOutcomes ==
    UNION {UNION {{FetchedLines(indexResp, routineUri, text) :
                      text \in IF routineUri # <<>> THEN RoutineTexts ELSE {<<>>}} :
                  routineUri \in IF IndexFound(indexResp) THEN DefinitionUris ELSE {<<>>}} :
           indexResp \in IndexResponses}

\* What fetching may yield for the call, where the hover gets as far as fetching.
RoutineAnswersFor(call) ==
    IF call = undefined THEN {undefined}
    ELSE IF call[1].local THEN {undefined}
    ELSE FetchOutcomes

RoutineAnswersAt(d, found) ==
    IF found[1] = -1 \/ found[2] = -1 THEN {undefined}
    ELSE RoutineAnswersFor(RoutineCall(d, found[1], found[2]))

RoutineAnswers(d, position) ==
    RoutineAnswersAt(d, findOpenParen(d, d.parsed, position.line, HoverTokenIndex(d, position)))

\* A hover request and the answers given to it.
HoverRequest(provider, position, tokenIndex, answers) ==
    [provider |-> provider, position |-> position, tokenIndex |-> tokenIndex, answers |-> answers]

\* The hover requests a client may make on d, with the answers they may get.
ClassHoverRequests(d) ==
    UNION {{HoverRequest("getClassMethodHover", position, HoverTokenIndex(d, position), answers) :
               answers \in ClassAnswers(d, position)} :
           position \in CursorPositions(d)}

RoutineHoverRequests(d) ==
    UNION {{HoverRequest("getRoutineHover", position, HoverTokenIndex(d, position), <<fetched>>) :
               fetched \in RoutineAnswers(d, position)} :
           position \in CursorPositions(d)}

\* The requests that may come next: any, or, while a hover is on record, the
\* same request with the same answers again. The record keeps the request, its
\* result and the session states it was requested in.
Repeats(fresh) == IF hover = undefined THEN fresh ELSE {hover[1].request}

\* Whether a signature-help session with cached documentation is active.
DocumentationCached == signatureHelpStartPosition # undefined /\ signatureHelpDocumentationCache # undefined

\* The session states the hover on record has been requested in, this request included.
Witnessed == (IF hover = undefined THEN {} ELSE hover[1].sessions) \cup {DocumentationCached}

\* A hover on a class member is requested and answered.
ClassMethodHover ==
    /\ \E request \in Repeats(ClassHoverRequests(doc)) :
          /\ request.provider = "getClassMethodHover"
          /\ \E result \in {getClassMethodHover(doc, request.position, request.tokenIndex,
                                                request.answers[1], request.answers[2],
                                                request.answers[3])} :
                hover' = Some([request |-> request, result |-> result,
                               sessions |-> Witnessed])
    /\ UNCHANGED <<doc, signatureHelpMacroCache, signatureHelpDocumentationCache,
                   signatureHelpStartPosition, inflight, returned, clientSignatureHelp,
                   requests, sessionKind, functionVars>>

\* A hover on a routine call is requested and answered.
RoutineHover ==
    /\ \E request \in Repeats(RoutineHoverRequests(doc)) :
          /\ request.provider = "getRoutineHover"
          /\ \E result \in {getRoutineHover(doc, request.position, request.tokenIndex,
                                            request.answers[1])} :
                hover' = Some([request |-> request, result |-> result,
                               sessions |-> Witnessed])
    /\ UNCHANGED <<doc, signatureHelpMacroCache, signatureHelpDocumentationCache,
                   signatureHelpStartPosition, inflight, returned, clientSignatureHelp,
                   requests, sessionKind, functionVars>>

\* No pure function is being studied on its own.
\* ------------------------------------------------------------------------
\* The client's formatting control
\* ------------------------------------------------------------------------

\* The URIs of the documents formatted.
FormatUris == {"u.cls", "v.cls"}

manualAllowanceMs == 1000

compileBlockMs == 8000

\* The module's two sets and two maps, as one record. A map holds for each URI
\* its expiry time, or nothing.
FormatControl ==
    [skipUris |-> skipUris, autoSkipUris |-> autoSkipUris,
     manualAllowances |-> manualAllowances, compileBlocks |-> compileBlocks]

\* new Map()
EmptyMap == [uri \in FormatUris |-> undefined]

\* map.delete(uri) when the entry has expired at now or before.
PurgeExpiredAtExpiry(map, uri, now) ==
    IF map[uri] # undefined /\ map[uri][1] <= now THEN [map EXCEPT ![uri] = undefined] ELSE map

\* map.delete(uri) when the entry has expired before now.
PurgeExpired(map, uri, now) ==
    IF map[uri] # undefined /\ map[uri][1] < now THEN [map EXCEPT ![uri] = undefined] ELSE map

purgeExpiredEntries(f, uri, now) ==
    [f EXCEPT !.manualAllowances = PurgeExpired(f.manualAllowances, uri, now),
              !.compileBlocks = PurgeExpired(f.compileBlocks, uri, now)]

scheduleFormatSkip(f, uri) ==
    [f EXCEPT !.skipUris = @ \cup {uri},
              !.autoSkipUris = @ \cup {uri},
              !.manualAllowances = [@ EXCEPT ![uri] = undefined]]

\* skipUris.delete(uri); autoSkipUris.delete(uri)
WithoutSkip(f, uri) ==
    [f EXCEPT !.skipUris = @ \ {uri}, !.autoSkipUris = @ \ {uri}]

\* consumeFormatSkip, were a pending skip to outlive its consumption.
consumeFormatSkipKeepingSkip(f, uri, now) ==
    LET purged == purgeExpiredEntries(f, uri, now)
    IN  IF purged.manualAllowances[uri] # undefined /\ purged.manualAllowances[uri][1] >= now
        THEN [control |-> WithoutSkip(purged, uri), result |-> FALSE]
        ELSE IF purged.compileBlocks[uri] # undefined
        THEN [control |-> purged, result |-> TRUE]
        ELSE IF uri \in purged.skipUris
        THEN [control |-> purged, result |-> TRUE]
        ELSE [control |-> purged, result |-> FALSE]

\* consumeFormatSkip: the control it leaves and the boolean it returns.
consumeFormatSkip(f, uri, now) ==
    LET purged == purgeExpiredEntries(f, uri, now)
    IN  IF purged.manualAllowances[uri] # undefined /\ purged.manualAllowances[uri][1] >= now
        THEN [control |-> WithoutSkip(purged, uri), result |-> FALSE]
        ELSE IF purged.compileBlocks[uri] # undefined
        THEN [control |-> purged, result |-> TRUE]
        ELSE IF uri \in purged.skipUris
        THEN [control |-> WithoutSkip(purged, uri), result |-> TRUE]
        ELSE [control |-> purged, result |-> FALSE]

clearFormatSkip(f, uri) ==
    [WithoutSkip(f, uri) EXCEPT !.manualAllowances = [@ EXCEPT ![uri] = undefined]]

removeFormatSkip(f, uri) ==
    [WithoutSkip(f, uri) EXCEPT !.manualAllowances = [@ EXCEPT ![uri] = undefined],
                                !.compileBlocks = [@ EXCEPT ![uri] = undefined]]

\* blockFormatAfterCompile, were it to keep a manual allowance.
blockFormatAfterCompileKeepingAllowance(f, uri, now) ==
    [f EXCEPT !.skipUris = @ \cup {uri},
              !.autoSkipUris = @ \ {uri},
              !.compileBlocks = [@ EXCEPT ![uri] = Some(now + compileBlockMs)]]

blockFormatAfterCompile(f, uri, now) ==
    [f EXCEPT !.skipUris = @ \cup {uri},
              !.autoSkipUris = @ \ {uri},
              !.compileBlocks = [@ EXCEPT ![uri] = Some(now + compileBlockMs)],
              !.manualAllowances = [@ EXCEPT ![uri] = undefined]]

\* allowManualFormat, were it not to return early on a pending automatic skip.
allowManualFormatAlways(f, uri, now) ==
    [f EXCEPT !.manualAllowances = [@ EXCEPT ![uri] = Some(now + manualAllowanceMs)],
              !.compileBlocks = [@ EXCEPT ![uri] = undefined],
              !.skipUris = @ \ {uri}]

allowManualFormat(f, uri, now) ==
    IF uri \in f.autoSkipUris THEN f
    ELSE [f EXCEPT !.manualAllowances = [@ EXCEPT ![uri] = Some(now + manualAllowanceMs)],
                   !.compileBlocks = [@ EXCEPT ![uri] = undefined],
                   !.skipUris = @ \ {uri}]

\* What has been called so far. call: the last call, with the control it found
\* and what it returned. consumed: for each URI, how many consumeFormatSkip
\* calls have followed a scheduleFormatSkip with no other call on the URI in
\* between and no compile block in force at the first of them (-1 when there
\* is no such scheduleFormatSkip). blockedAt: the time of the last
\* blockFormatAfterCompile not followed by removeFormatSkip or by an
\* allowManualFormat made without a pending automatic skip. allowedAt: the time
\* of the last such allowManualFormat. rearmed: whether scheduleFormatSkip or
\* blockFormatAfterCompile has been called since.
NoCalls ==
    [call |-> undefined,
     consumed |-> [uri \in FormatUris |-> -1],
     blockedAt |-> [uri \in FormatUris |-> undefined],
     allowedAt |-> [uri \in FormatUris |-> undefined],
     rearmed |-> [uri \in FormatUris |-> FALSE]]

NoFormatControl ==
    /\ skipUris = {}
    /\ autoSkipUris = {}
    /\ manualAllowances = EmptyMap
    /\ compileBlocks = EmptyMap
    /\ clock = 0
    /\ formatLog = NoCalls

NoDocumentationInput ==
    /\ documentationInput = undefined
    /\ routineDocumentation = undefined
    /\ NoFormatControl

NoParameterText ==
    /\ parameterText = <<>>
    /\ splitParams = undefined
    /\ NoDocumentationInput

NoRoutineSource ==
    /\ routineSource = <<>>
    /\ labelDetails = undefined
    /\ NoParameterText

NoFunction ==
    /\ formalSpecText = <<>>
    /\ paramsArr = undefined
    /\ argumentList = <<>>
    /\ argumentNumber = 0
    /\ emphasizedList = undefined
    /\ NoRoutineSource

\* The provider as it is loaded: no session, no request.
NoSession ==
    /\ signatureHelpMacroCache = undefined
    /\ signatureHelpDocumentationCache = undefined
    /\ signatureHelpStartPosition = undefined
    /\ inflight = <<>>
    /\ returned = undefined
    /\ clientSignatureHelp = undefined
    /\ requests = 0
    /\ sessionKind = "none"

Init ==
    /\ doc \in Documents
    /\ NoSession
    /\ hover = undefined
    /\ NoFunction

\* The number of requests of a run in which requests are served one at a time.
MaxRequests == 4

\* The number of requests of a run in which requests overlap, and how many overlap.
MaxOverlappingRequests == 3

MaxInFlight == 2

\* Requests are served one at a time, each step being a step of the one in progress.
Next ==
    \/ OnSignatureHelp(1, MaxRequests)
    \/ Respond
    \/ \E i \in 1..Len(inflight) : MacroSignatureResponse(i)
    \/ \E i \in 1..Len(inflight) : MacroExpansionResponse(i)
    \/ \E i \in 1..Len(inflight) : RetriggerExpansionResponse(i)
    \/ \E i \in 1..Len(inflight) : MemberResponse(i)
    \/ \E i \in 1..Len(inflight) : RoutineLocal(i)
    \/ \E i \in 1..Len(inflight) : RoutineRemote(i)

Spec == Init /\ [][Next]_vars

\* A request may arrive while another is suspended at one of its awaits.
NextConc ==
    \/ OnSignatureHelp(MaxInFlight, MaxOverlappingRequests)
    \/ Respond
    \/ \E i \in 1..Len(inflight) : MacroSignatureResponse(i)
    \/ \E i \in 1..Len(inflight) : MacroExpansionResponse(i)
    \/ \E i \in 1..Len(inflight) : RetriggerExpansionResponse(i)
    \/ \E i \in 1..Len(inflight) : MemberResponse(i)
    \/ \E i \in 1..Len(inflight) : RoutineLocal(i)
    \/ \E i \in 1..Len(inflight) : RoutineRemote(i)

\* The documents of the runs in which requests overlap.
OverlapDocuments == {DocMacro, DocMethod, DocRoutine}

InitConc == Init /\ doc \in OverlapDocuments

SpecConc == InitConc /\ [][NextConc]_vars

\* The number of signature-help requests of a run in which hovers are requested.
MaxRequestsAroundHover == 1

\* The documents of the runs in which hovers are requested: those with a call
\* of a class member or of a routine.
HoverDocuments == {DocMethod, DocNew, DocOpen, DocRoutine, DocLocal}

InitHover == Init /\ doc \in HoverDocuments

\* Hovers are requested before, between and after signature-help requests.
NextHover ==
    \/ OnSignatureHelp(1, MaxRequestsAroundHover)
    \/ Respond
    \/ \E i \in 1..Len(inflight) : MemberResponse(i)
    \/ \E i \in 1..Len(inflight) : RoutineLocal(i)
    \/ \E i \in 1..Len(inflight) : RoutineRemote(i)
    \/ ClassMethodHover
    \/ RoutineHover

SpecHover == InitHover /\ [][NextHover]_vars

\* ------------------------------------------------------------------------
\* The parameter splitter on its own
\* ------------------------------------------------------------------------

\* The characters of the formal specs the splitter is given, and their length.
FormalSpecAlphabet == {"(", ")", ",", "a", "\"", "{", "}", " "}

MaxFormalSpecLength == 5

\* (a, b(x,y), "c,d")
NestedAndQuoted ==
    <<"(", "a", ",", " ", "b", "(", "x", ",", "y", ")", ",", " ",
      "\"", "c", ",", "d", "\"", ")">>

\* (a,{b,c},d(e,f))
BracedAndNested ==
    <<"(", "a", ",", "{", "b", ",", "c", "}", ",", "d", "(", "e", ",", "f", ")", ")">>

FormalSpecs ==
    UNION {[1..n -> FormalSpecAlphabet] : n \in 0..MaxFormalSpecLength}
    \cup {NestedAndQuoted, BracedAndNested}

InitSplitter ==
    /\ doc = DocMethod
    /\ NoSession
    /\ hover = undefined
    /\ formalSpecText \in FormalSpecs
    /\ paramsArr = undefined
    /\ argumentList = <<>>
    /\ argumentNumber = 0
    /\ emphasizedList = undefined
    /\ NoRoutineSource

\* formalSpecToParamsArr is called on the formal spec.
SplitParameters ==
    /\ paramsArr = undefined
    /\ paramsArr' = Some(formalSpecToParamsArr(formalSpecText))
    /\ UNCHANGED <<doc, signatureHelpMacroCache, signatureHelpDocumentationCache,
                   signatureHelpStartPosition, inflight, returned, clientSignatureHelp,
                   requests, sessionKind, hover, formalSpecText, argumentList,
                   argumentNumber, emphasizedList, routineSource, labelDetails,
                   parameterText, splitParams, documentationVars, formatVars>>

NextSplitter == SplitParameters

SpecSplitter == InitSplitter /\ [][NextSplitter]_vars

\* ------------------------------------------------------------------------
\* The argument emphasis on its own
\* ------------------------------------------------------------------------

\* The characters of the argument lists given to emphasizeArgument, their
\* length, and the argument numbers asked for.
ArgumentAlphabet == {"(", ")", "A", ",", " ", NBSP}

MaxArgumentListLength == 5

MaxArgumentNumber == 5

\* A B C
ThreeWords == <<"A", " ", "B", " ", "C">>

\* (w, x, y, z)
FourArguments == <<"(", "w", ",", " ", "x", ",", " ", "y", ",", " ", "z", ")">>

ArgumentLists ==
    UNION {[1..n -> ArgumentAlphabet] : n \in 0..MaxArgumentListLength}
    \cup {ThreeWords, FourArguments}

InitEmphasis ==
    /\ doc = DocMacro
    /\ NoSession
    /\ hover = undefined
    /\ formalSpecText = <<>>
    /\ paramsArr = undefined
    /\ argumentList \in ArgumentLists
    /\ argumentNumber \in 1..MaxArgumentNumber
    /\ emphasizedList = undefined
    /\ NoRoutineSource

\* emphasizeArgument is called on the argument list and returns.
EmphasizeArgument ==
    /\ emphasizedList = undefined
    /\ \E result \in {emphasizeArgument(argumentList, argumentNumber)} :
          /\ result # NeverReturns
          /\ emphasizedList' = Some(result)
    /\ UNCHANGED <<doc, signatureHelpMacroCache, signatureHelpDocumentationCache,
                   signatureHelpStartPosition, inflight, returned, clientSignatureHelp,
                   requests, sessionKind, hover, formalSpecText, paramsArr,
                   argumentList, argumentNumber, routineSource, labelDetails,
                   parameterText, splitParams, documentationVars, formatVars>>

NextEmphasis == EmphasizeArgument

SpecEmphasis == InitEmphasis /\ [][NextEmphasis]_vars

\* The call is made and runs: it returns unless its loop never ends.
FairSpecEmphasis == SpecEmphasis /\ WF_vars(EmphasizeArgument)

\* ------------------------------------------------------------------------
\* The label lookup of the routine resolver on its own
\* ------------------------------------------------------------------------

\* The characters of the routine lines the resolver is given, and their length.
RoutineAlphabet == {"L", "(", ")", ",", " ", ";", "a"}

MaxRoutineLineLength == 3

\* Lines in which the label L is followed by a tab, by each comment marker
\* but ";", and by more of an identifier; a label line with a "//" comment
\* after its first parameter.
LongerRoutineLines ==
    {<<"L", "\t", "(", "a", ")">>,
     <<"L", "/", "/", "(", "a", ")">>,
     <<"L", "/", "*", "(", "a", ")">>,
     <<"L", "#", "#", ";", "a">>,
     <<"L", "%", "(", "a", ")">>,
     <<"L", "1", "(", "a", ")">>,
     <<"L", "(", "a", ",", " ", "/", "/", "b">>}

RoutineLines ==
    UNION {[1..n -> RoutineAlphabet] : n \in 0..MaxRoutineLineLength}
    \cup LongerRoutineLines

\* A parameter list that closes on the third line:
\*   L(a,
\*    a,
\*    a)
ThreeLineList ==
    << <<"L", "(", "a", ",">>, <<" ", "a", ",">>, <<" ", "a", ")">> >>

RoutineSourceTexts ==
    {<<first, second>> : first \in RoutineLines, second \in RoutineLines}
    \cup {ThreeLineList}

InitRoutineSource ==
    /\ doc = DocRoutine
    /\ NoSession
    /\ hover = undefined
    /\ formalSpecText = <<>>
    /\ paramsArr = undefined
    /\ argumentList = <<>>
    /\ argumentNumber = 0
    /\ emphasizedList = undefined
    /\ routineSource \in RoutineSourceTexts
    /\ labelDetails = undefined
    /\ NoParameterText

\* getRoutineSignatureDetails scans the lines of routine X for the label of the
\* call " do L^X(" of the document.
FindLabel ==
    /\ labelDetails = undefined
    /\ \E call \in {RoutineCall(doc, 1, 4)} :
          labelDetails' = Some([label |-> call[1].label,
                                labelLineIndex |-> LabelLineIndex(routineSource, call[1].label),
                                details |-> RoutineDetails(doc, 1, 4, call, Some(routineSource))])
    /\ UNCHANGED <<doc, signatureHelpMacroCache, signatureHelpDocumentationCache,
                   signatureHelpStartPosition, inflight, returned, clientSignatureHelp,
                   requests, sessionKind, hover, formalSpecText, paramsArr,
                   argumentList, argumentNumber, emphasizedList, routineSource,
                   parameterText, splitParams, documentationVars, formatVars>>

NextRoutineSource == FindLabel

SpecRoutineSource == InitRoutineSource /\ [][NextRoutineSource]_vars

\* ------------------------------------------------------------------------
\* The routine parameter splitter on its own
\* ------------------------------------------------------------------------

\* The characters of the parameter texts splitRoutineParams is given, and
\* their length.
ParameterTextAlphabet == {",", "a", " ", "(", ")", "\""}

MaxParameterTextLength == 5

\* a, b(c,d), "e,f"
NestedAndQuotedParameters ==
    <<"a", ",", " ", "b", "(", "c", ",", "d", ")", ",", " ", "\"", "e", ",", "f", "\"">>

ParameterTextsGiven ==
    UNION {[1..n -> ParameterTextAlphabet] : n \in 0..MaxParameterTextLength}
    \cup {NestedAndQuotedParameters}

InitRoutineParams ==
    /\ doc = DocRoutine
    /\ NoSession
    /\ hover = undefined
    /\ formalSpecText = <<>>
    /\ paramsArr = undefined
    /\ argumentList = <<>>
    /\ argumentNumber = 0
    /\ emphasizedList = undefined
    /\ routineSource = <<>>
    /\ labelDetails = undefined
    /\ parameterText \in ParameterTextsGiven
    /\ splitParams = undefined
    /\ NoDocumentationInput

\* splitRoutineParams is called on the parameter text.
SplitRoutineParams ==
    /\ splitParams = undefined
    /\ splitParams' = Some(splitRoutineParams(parameterText))
    /\ UNCHANGED <<doc, signatureHelpMacroCache, signatureHelpDocumentationCache,
                   signatureHelpStartPosition, inflight, returned, clientSignatureHelp,
                   requests, sessionKind, hover, formalSpecText, paramsArr,
                   argumentList, argumentNumber, emphasizedList, routineSource,
                   labelDetails, parameterText, documentationVars, formatVars>>

NextRoutineParams == SplitRoutineParams

SpecRoutineParams == InitRoutineParams /\ [][NextRoutineParams]_vars

\* ------------------------------------------------------------------------
\* The documentation renderer on its own
\* ------------------------------------------------------------------------

\* The parameters of the signatures buildRoutineDocumentation is given, and how
\* many a signature has.
DocumentedParameters == {<<"a">>, <<"b", "c">>, <<"<">>}

MaxDocumentedParameters == 2

\* The largest active index it is given; the smallest is -1.
MaxActiveIndex == 3

\* The signature of label L with the given parameters, as the routine resolver builds it.
DocumentedSignature(params) ==
    LET signatureLabel == <<"L", "(">> \o Join(params, <<",", " ">>) \o <<")">>
    IN  SignatureInformation(signatureLabel, routineParameterInfos(signatureLabel, params))

DocumentedSignatures ==
    {DocumentedSignature(params) :
        params \in UNION {[1..n -> DocumentedParameters] : n \in 0..MaxDocumentedParameters}}

\* The options a caller may pass; context "none" stands for an absent context.
DocumentationOptions ==
    [context : {"hover", "signature", "none"}, boldParameter : BOOLEAN,
     showHeaderInHover : BOOLEAN]

DocumentationInputs ==
    [signature : DocumentedSignatures,
     activeIndex : {undefined} \cup {Some(i) : i \in -1..MaxActiveIndex},
     options : DocumentationOptions]

InitDocumentation ==
    /\ doc = DocRoutine
    /\ NoSession
    /\ hover = undefined
    /\ formalSpecText = <<>>
    /\ paramsArr = undefined
    /\ argumentList = <<>>
    /\ argumentNumber = 0
    /\ emphasizedList = undefined
    /\ routineSource = <<>>
    /\ labelDetails = undefined
    /\ parameterText = <<>>
    /\ splitParams = undefined
    /\ documentationInput \in {Some(input) : input \in DocumentationInputs}
    /\ routineDocumentation = undefined
    /\ NoFormatControl

\* buildRoutineDocumentation is called on the arguments.
BuildRoutineDocumentation ==
    /\ routineDocumentation = undefined
    /\ routineDocumentation' = Some(buildRoutineDocumentation(documentationInput[1].signature,
                                                              documentationInput[1].activeIndex,
                                                              documentationInput[1].options))
    /\ UNCHANGED <<doc, signatureHelpMacroCache, signatureHelpDocumentationCache,
                   signatureHelpStartPosition, inflight, returned, clientSignatureHelp,
                   requests, sessionKind, hover, formalSpecText, paramsArr,
                   argumentList, argumentNumber, emphasizedList, routineSource,
                   labelDetails, parameterText, splitParams, documentationInput, formatVars>>

NextDocumentation == BuildRoutineDocumentation

SpecDocumentation == InitDocumentation /\ [][NextDocumentation]_vars

\* ------------------------------------------------------------------------
\* The formatting control in use
\* ------------------------------------------------------------------------

\* The times at which calls are made, in milliseconds.
Instants == {0, 1000, 1001, 8000, 8001}

\* The count of consumeFormatSkip calls after a scheduleFormatSkip stops here.
MaxConsumed == 2

InitFormat ==
    /\ doc = DocRoutine
    /\ NoSession
    /\ hover = undefined
    /\ NoFunction

\* The provider's variables and the inputs of the pure functions stay as they are.
FormatFrame ==
    UNCHANGED <<doc, signatureHelpMacroCache, signatureHelpDocumentationCache,
                signatureHelpStartPosition, inflight, returned, clientSignatureHelp,
                requests, sessionKind, hover, formalSpecText, paramsArr,
                argumentList, argumentNumber, emphasizedList, routineSource,
                labelDetails, parameterText, splitParams, documentationVars>>

\* Whether a compile block was set for uri at most compileBlockMs ago and has
\* not been lifted since.
BlockInForce(uri) ==
    /\ formatLog.blockedAt[uri] # undefined
    /\ clock <= formatLog.blockedAt[uri][1] + compileBlockMs

\* Whether allowManualFormat(uri) is called without a pending automatic skip.
Effective(op, uri) == op = "allowManualFormat" /\ uri \notin autoSkipUris

\* The record of what has been called, after the call op(uri) that returned result.
Logged(op, uri, result) ==
    [call |-> Some([op |-> op, uri |-> uri, result |-> result, before |-> FormatControl]),
     consumed |->
         [formatLog.consumed EXCEPT ![uri] =
             IF op = "scheduleFormatSkip" THEN 0
             ELSE IF op # "consumeFormatSkip" \/ @ = -1 THEN -1
             ELSE IF @ = 0 /\ BlockInForce(uri) THEN -1
             ELSE Min(@ + 1, MaxConsumed)],
     blockedAt |->
         [formatLog.blockedAt EXCEPT ![uri] =
             IF op = "blockFormatAfterCompile" THEN Some(clock)
             ELSE IF op = "removeFormatSkip" \/ Effective(op, uri) THEN undefined
             ELSE @],
     allowedAt |->
         [formatLog.allowedAt EXCEPT ![uri] = IF Effective(op, uri) THEN Some(clock) ELSE @],
     rearmed |->
         [formatLog.rearmed EXCEPT ![uri] =
             IF op \in {"scheduleFormatSkip", "blockFormatAfterCompile"} THEN TRUE
             ELSE IF Effective(op, uri) THEN FALSE
             ELSE @]]

\* The control becomes f after the call op(uri), which returned result.
Called(op, uri, f, result) ==
    /\ skipUris' = f.skipUris
    /\ autoSkipUris' = f.autoSkipUris
    /\ manualAllowances' = f.manualAllowances
    /\ compileBlocks' = f.compileBlocks
    /\ formatLog' = Logged(op, uri, result)
    /\ UNCHANGED clock
    /\ FormatFrame

ScheduleFormatSkip ==
    \E uri \in FormatUris :
        Called("scheduleFormatSkip", uri, scheduleFormatSkip(FormatControl, uri), undefined)

ConsumeFormatSkip ==
    \E uri \in FormatUris :
        \E out \in {consumeFormatSkip(FormatControl, uri, clock)} :
            Called("consumeFormatSkip", uri, out.control, Some(out.result))

ClearFormatSkip ==
    \E uri \in FormatUris :
        Called("clearFormatSkip", uri, clearFormatSkip(FormatControl, uri), undefined)

RemoveFormatSkip ==
    \E uri \in FormatUris :
        Called("removeFormatSkip", uri, removeFormatSkip(FormatControl, uri), undefined)

BlockFormatAfterCompile ==
    \E uri \in FormatUris :
        Called("blockFormatAfterCompile", uri,
               blockFormatAfterCompile(FormatControl, uri, clock), undefined)

AllowManualFormat ==
    \E uri \in FormatUris :
        Called("allowManualFormat", uri, allowManualFormat(FormatControl, uri, clock),
               undefined)

\* Time passes between two calls.
TimePasses ==
    /\ \E now \in Instants : now > clock /\ clock' = now
    /\ formatLog' = [formatLog EXCEPT !.call = undefined]
    /\ UNCHANGED <<skipUris, autoSkipUris, manualAllowances, compileBlocks>>
    /\ FormatFrame

NextFormat ==
    \/ ScheduleFormatSkip
    \/ ConsumeFormatSkip
    \/ ClearFormatSkip
    \/ RemoveFormatSkip
    \/ BlockFormatAfterCompile
    \/ AllowManualFormat
    \/ TimePasses

SpecFormat == InitFormat /\ [][NextFormat]_vars

\* ------------------------------------------------------------------------
\* Properties of the active parameter
\* ------------------------------------------------------------------------

\* The active parameter of a signature help is null when its signature has no
\* parameters, and otherwise the index of one of them.
ActiveParameterInRange(help) ==
    LET n == Len(help.signatures[1].parameters)
    IN  IF n = 0 THEN help.activeParameter = undefined
        ELSE /\ help.activeParameter # undefined
             /\ help.activeParameter[1] \in 0..(n - 1)

\* C1: every signature help that onSignatureHelp returns, on opening, on
\* re-discovery and on retrigger, for macros, members and routines alike, has its
\* active parameter null when the signature has no parameters and otherwise
\* between 0 and parameters.length - 1.
C1_ActiveParameterInRange ==
    (returned # undefined /\ returned[1].result # undefined)
        => ActiveParameterInRange(returned[1].result[1])
\* ------------------------------------------------------------------------
\* Properties of the order of the resolvers
\* ------------------------------------------------------------------------

\* Whether call is one of the calls a request made.
Consulted(r, call) == \E k \in 1..Len(r.log) : r.log[k] = call

\* A request that attempted resolution, on "(" or by re-discovery, and returned.
Attempted(r) == r.branch \in {"open", "rediscover"} /\ r.threw = undefined

\* C2: on a request that attempts resolution, on "(" as on "," or Invoked, the
\* resolvers are tried in the order macro, class member, routine: none is consulted
\* after the one that succeeds, the signature returned is the successful one's, and
\* the routine resolver, the last, is consulted whenever the earlier ones gave no
\* signature.
C2_ResolversInOrder ==
    (returned # undefined /\ Attempted(returned[1])) =>
        LET r == returned[1]
        IN  /\ r.resolver = "macro" =>
                   /\ ~Consulted(r, "getClassMemberContext")
                   /\ ~Consulted(r, "getRoutineSignatureDetails")
            /\ r.resolver = "member" => ~Consulted(r, "getRoutineSignatureDetails")
            /\ r.resolver # "none" => r.result # undefined
            /\ r.resolver = "none" => Consulted(r, "getRoutineSignatureDetails")
\* ------------------------------------------------------------------------
\* Properties of the session
\* ------------------------------------------------------------------------

\* Whether a token lies under the cursor and the context allows signature help.
Qualifies(d, pos) ==
    LET thistoken == thistokenAt(d.parsed[pos.line + 1], pos.character)
    IN  thistoken # -1 /\ ~NotApplicable(d, pos, thistoken)

\* Whether a token lies under the cursor and the context rules signature help out.
Disqualified(d, pos) ==
    LET thistoken == thistokenAt(d.parsed[pos.line + 1], pos.character)
    IN  thistoken # -1 /\ NotApplicable(d, pos, thistoken)

\* Whether a session was active when request r arrived, for a request that
\* returned without a remote query.
SessionActive(r) == r.before[1].start # undefined /\ r.activeSignatureHelp # undefined

\* A retrigger that has returned after finding the session active and ")" before the cursor.
ClosingRetrigger ==
    /\ returned # undefined
    /\ returned[1].isRetrigger
    /\ returned[1].before # undefined
    /\ SessionActive(returned[1])
    /\ PrevChar(doc, returned[1].position) = <<")">>

\* C3: a retrigger that arrives while a session is active, with ")" just before
\* the cursor, returns no result and leaves every field of the session cleared:
\* the start position, the documentation cache and the macro expansion context.
C3_CloseClearsAllFields ==
    ClosingRetrigger =>
        /\ returned[1].result = undefined
        /\ signatureHelpStartPosition = undefined
        /\ signatureHelpDocumentationCache = undefined
        /\ signatureHelpMacroCache = undefined

\* C3, amended: such a retrigger, in a context that qualifies, returns no result and
\* leaves the start position and the documentation cache cleared; the macro
\* expansion context is kept as it was.
C3_CloseClearsStartAndDocumentation ==
    (ClosingRetrigger /\ Qualifies(doc, returned[1].position)) =>
        /\ returned[1].result = undefined
        /\ returned[1].threw = undefined
        /\ signatureHelpStartPosition = undefined
        /\ signatureHelpDocumentationCache = undefined
        /\ signatureHelpMacroCache = returned[1].before[1].macro

\* A macro session that had documentation has been closed.
C3_MacroSessionClosed ==
    /\ ClosingRetrigger
    /\ Qualifies(doc, returned[1].position)
    /\ returned[1].before[1].cache # undefined
    /\ signatureHelpMacroCache # undefined

\* A request that has returned after finding the start position of a session
\* recorded and a context that does not qualify.
DisqualifiedInSession ==
    /\ returned # undefined
    /\ Disqualified(doc, returned[1].position)
    /\ returned[1].before[1].start # undefined

\* C4: a request that arrives while a session is active and whose context does
\* not qualify destroys the session: start position and documentation cache are
\* cleared afterwards.
C4_DisqualifiedEndsSession ==
    DisqualifiedInSession =>
        /\ signatureHelpStartPosition = undefined
        /\ signatureHelpDocumentationCache = undefined

\* C4, amended: such a request leaves the session as it was: start position,
\* documentation cache and macro expansion context keep their values.
C4_DisqualifiedKeepsSession ==
    DisqualifiedInSession =>
        /\ returned[1].threw = undefined
        /\ Globals = returned[1].before[1]

\* A request in a context that does not qualify has returned while a session with
\* documentation was active.
C4_DisqualifiedWithDocumentation ==
    /\ DisqualifiedInSession
    /\ returned[1].activeSignatureHelp # undefined
    /\ signatureHelpDocumentationCache # undefined
\* Whether paren matching from the cursor finds an unmatched "(" whose callee is a
\* macro or a class member.
EnclosingCall(d, pos) ==
    LET thistoken == thistokenAt(d.parsed[pos.line + 1], pos.character)
        found     == findOpenParen(d, d.parsed, pos.line, thistoken)
    IN  /\ found[1] # -1
        /\ found[2] >= 1
        /\ \/ IsMacroToken(d.parsed[found[1] + 1][found[2]])
           \/ IsMemberToken(d.parsed[found[1] + 1][found[2]])

\* Just after the unmatched "(" that paren matching from the cursor finds.
EnclosingCallStart(d, pos) ==
    LET thistoken == thistokenAt(d.parsed[pos.line + 1], pos.character)
        found     == findOpenParen(d, d.parsed, pos.line, thistoken)
    IN  AfterParen(d, found[1], found[2])

\* A retrigger on "," that has returned after finding no session active, in a
\* context that qualifies.
CommaRetriggerWithoutSession ==
    /\ returned # undefined
    /\ returned[1].isRetrigger
    /\ returned[1].triggerCharacter = ","
    /\ returned[1].before # undefined
    /\ ~SessionActive(returned[1])
    /\ Qualifies(doc, returned[1].position)

\* C5: a retrigger on "," that arrives when no session is active re-runs paren
\* matching from the cursor and, where an enclosing unmatched "(" with a callee is
\* found, consults the callee's resolver; the session it creates with the
\* signature starts just after that "(".
C5_RetriggerRediscovers ==
    (CommaRetriggerWithoutSession /\ EnclosingCall(doc, returned[1].position)) =>
        /\ returned[1].log # <<>>
        /\ returned[1].result # undefined =>
               signatureHelpStartPosition = Some(EnclosingCallStart(doc, returned[1].position))

\* C5, amended: a retrigger on "," that arrives when no session is active, in a
\* context that qualifies, returns no result, consults no resolver and leaves the
\* session state as it was; paren matching is re-run only for a request that is
\* not a retrigger.
C5_RetriggerWithoutSessionReturnsNothing ==
    /\ CommaRetriggerWithoutSession =>
           /\ returned[1].result = undefined
           /\ returned[1].threw = undefined
           /\ returned[1].log = <<>>
           /\ Globals = returned[1].before[1]
    /\ (returned # undefined /\ returned[1].branch = "rediscover") => ~returned[1].isRetrigger

\* Such a retrigger has returned with the cursor inside the argument list of a call.
C5_RetriggerInsideCall ==
    /\ CommaRetriggerWithoutSession
    /\ EnclosingCall(doc, returned[1].position)
    /\ returned[1].result = undefined

\* ------------------------------------------------------------------------
\* Properties of overlapping requests
\* ------------------------------------------------------------------------

\* C6: when a request that was suspended at a remote query resumes after another
\* request has closed the session, its continuation leaves the start position and
\* the documentation cache as they are and does not fail on the session state
\* being gone.
C6_StaleResponseDiscarded ==
    [][(returned = undefined /\ returned' # undefined /\ returned'[1].stale) =>
           /\ signatureHelpStartPosition' = signatureHelpStartPosition
           /\ signatureHelpDocumentationCache' = signatureHelpDocumentationCache
           /\ returned'[1].threw # Some(CacheTypeError)]_vars

\* ------------------------------------------------------------------------
\* Properties of the handling of errors
\* ------------------------------------------------------------------------

\* C7: no exception leaves the engine: every request completes with a result or
\* with null, whatever its trigger, its position, the tokens of its line and the
\* responses of the server.
C7_NoExceptionPropagates ==
    returned # undefined => returned[1].threw = undefined

\* C8: a remote query that fails, answering nothing or an envelope without the
\* expected result, is handled like one that finds nothing: no error is raised to
\* the caller on reading the response.
C8_TransportFaultRaisesNothing ==
    returned # undefined => returned[1].threw # Some(ResponseTypeError)

\* An opening request that carried a signature help has returned, no resolver having
\* given a signature and none having failed.
OpeningUnresolved ==
    /\ returned # undefined
    /\ returned[1].branch = "open"
    /\ returned[1].resolver = "none"
    /\ returned[1].threw = undefined
    /\ returned[1].activeSignatureHelp # undefined

\* Whether help is the signature help carried by request r, documentation aside.
IsPreviousHelp(r, help) ==
    /\ help # undefined
    /\ help[1].signatures[1].label = r.activeSignatureHelp[1].signatures[1].label
    /\ help[1].signatures[1].parameters = r.activeSignatureHelp[1].signatures[1].parameters
    /\ help[1].activeParameter = r.activeSignatureHelp[1].activeParameter

C10_DisqualifiedReturnsNull ==
    (returned # undefined /\ Disqualified(doc, returned[1].position)) =>
        returned[1].result = undefined

\* C10, amended: a request whose context does not qualify returns no result when
\* it carries no previous signature help, and otherwise returns the signature help
\* it carries with the documentation of the documentation cache.
C10_DisqualifiedReturnsPrevious ==
    (returned # undefined /\ Disqualified(doc, returned[1].position)) =>
        /\ returned[1].threw = undefined
        /\ returned[1].result =
               IF returned[1].activeSignatureHelp = undefined THEN undefined
               ELSE Some(WithDocumentation(returned[1].activeSignatureHelp[1],
                                           CacheDoc(signatureHelpDocumentationCache)))

\* A request whose context does not qualify has returned the signature help it carried.
C10_PreviousReturned ==
    /\ returned # undefined
    /\ Disqualified(doc, returned[1].position)
    /\ returned[1].activeSignatureHelp # undefined
    /\ returned[1].result # undefined

\* ------------------------------------------------------------------------
\* Properties of the contexts in which resolution is attempted
\* ------------------------------------------------------------------------

\* Whether the token under the cursor is not in the target language, or is a
\* comment or a string, or an odd number of quotes precedes the cursor on its line.
OutsideCode(d, pos) ==
    LET thistoken == thistokenAt(d.parsed[pos.line + 1], pos.character)
    IN  /\ thistoken # -1
        /\ \/ NotApplicable(d, pos, thistoken)
           \/ InCommentOrString(d.parsed[pos.line + 1][thistoken + 1].s)

\* C11: a request whose cursor is on a token of another language, on a comment or
\* on a string, or after an odd number of quotes, runs no resolver, issues no
\* remote query and creates no session, be it an opening request, a re-discovery
\* or a retrigger.
C11_NoResolutionOutsideCode ==
    /\ \A i \in 1..Len(inflight) : ~OutsideCode(doc, inflight[i].position)
    /\ (returned # undefined /\ OutsideCode(doc, returned[1].position)) =>
           /\ returned[1].log = <<>>
           /\ returned[1].before # undefined
           /\ returned[1].before[1].start = undefined => signatureHelpStartPosition = undefined

\* ------------------------------------------------------------------------
\* Properties of retriggers in an active session
\* ------------------------------------------------------------------------

\* The request that has just arrived: it has returned, or it is the last suspended.
Newest(done, suspended) == IF done # undefined THEN done[1] ELSE suspended[Len(suspended)]

\* A request that continues the session: a retrigger that carries the signature
\* help, in a context that qualifies, with neither "(" nor ")" before the cursor.
ContinuesSession(r) ==
    /\ r.isRetrigger
    /\ r.activeSignatureHelp # undefined
    /\ Qualifies(doc, r.position)
    /\ PrevChar(doc, r.position) \notin {<<"(">>, <<")">>}

\* The active-parameter index at the cursor of r, counted from the session's start.
IndexAt(r) == determineActiveParam(GetText(doc, signatureHelpStartPosition[1], r.position))

\* The argument list with the argument of 0-based index emphasized: the markers
\* around the span that the parameter has in the list.
WithArgumentEmphasized(arguments, index) ==
    LET span == formalSpecToParamsArr(arguments)[index + 1]
    IN  Emphasized(arguments, span[1], span[2])

\* The rendering of the expansion the service returns for the arguments sent.
RenderingFor(exprespdata) == Some(Markdown(markdownifyExpansion(exprespdata[1].content)))

\* C12: in an active macro session, a retrigger that changes the active-parameter
\* index issues exactly one macro-expansion request, whose arguments are the
\* session's argument list with the argument at the new index emphasized; when the
\* expansion that comes back is not empty, the documentation cache and the
\* documentation of the returned signature both become its rendering.
C12_MacroRetriggerReexpands ==
    [][(requests' = requests + 1 /\ sessionKind = "macro"
        /\ ContinuesSession(Newest(returned', inflight'))
        /\ Some(IndexAt(Newest(returned', inflight')))
               # Newest(returned', inflight').activeSignatureHelp[1].activeParameter) =>
           LET r         == Newest(returned', inflight')
               arguments == signatureHelpMacroCache[1].arguments
           IN  /\ r.pc = "retriggerExpansion"
               /\ r.log = <<"getmacroexpansion">>
               /\ IndexAt(r) < Len(formalSpecToParamsArr(arguments)) =>
                      r.expargs = WithArgumentEmphasized(arguments, IndexAt(r))
               /\ \A exprespdata \in MacroExpansionResponses(r.expargs) :
                      (exprespdata # undefined /\ exprespdata[1].wellformed
                       /\ exprespdata[1].content # <<>>) =>
                          LET out == RetriggerExpansionStep(r, Globals', exprespdata)
                          IN  /\ out.req.threw = undefined
                              /\ out.cache # undefined
                              /\ out.cache[1].doc = RenderingFor(exprespdata)
                              /\ out.req.result[1].signatures[1].documentation
                                     = RenderingFor(exprespdata)]_vars

\* Whether the cursor of r is still inside the argument list the session is on:
\* no ")" typed since the start position closes that list.
InsideArguments(r) ==
    LET typed == GetText(doc, signatureHelpStartPosition[1], r.position)
    IN  CountChar(typed, "(") >= CountChar(typed, ")")

\* A retrigger that leaves the active-parameter index as the client shows it.
CheapRetrigger(r) ==
    /\ r.isRetrigger
    /\ r.activeSignatureHelp # undefined
    /\ Qualifies(doc, r.position)
    /\ PrevChar(doc, r.position) # <<"(">>
    /\ InsideArguments(r)
    /\ Some(IndexAt(r)) = r.activeSignatureHelp[1].activeParameter

\* C13: in a session of any kind, a retrigger that leaves the active-parameter
\* index unchanged (a cursor move within the parameter, or the ")" of a nested
\* call) keeps the session, issues no remote query and returns the cached
\* documentation; in a member or routine session no retrigger issues a remote query.
C13_CheapRetriggerReusesCache ==
    [][(requests' = requests + 1 /\ sessionKind # "none") =>
           LET r == Newest(returned', inflight')
           IN  /\ CheapRetrigger(r) =>
                      /\ r.pc = "done"
                      /\ r.log = <<>>
                      /\ r.threw = undefined
                      /\ signatureHelpStartPosition' = signatureHelpStartPosition
                      /\ r.result # undefined
                      /\ r.result[1].signatures[1].documentation
                             = CacheDoc(signatureHelpDocumentationCache)
               /\ (sessionKind \in {"member", "routine"} /\ r.isRetrigger
                   /\ PrevChar(doc, r.position) # <<"(">>) => r.log = <<>>]_vars
\* ------------------------------------------------------------------------
\* Hover
\* ------------------------------------------------------------------------

\* The signature-help session state.
SessionState ==
    <<signatureHelpStartPosition, signatureHelpDocumentationCache, signatureHelpMacroCache>>

\* C14: a hover request (getClassMethodHover or getRoutineHover) leaves the
\* start position, the documentation cache and the macro context as they were,
\* and a hover repeated with the same document, position, token and answers
\* returns what it returned before, whatever signature-help requests were
\* processed before or between the two.
C14_HoverDeterministicSessionIndependent ==
    [][hover' # hover =>
          /\ SessionState' = SessionState
          /\ hover # undefined =>
                /\ hover'[1].request = hover[1].request
                /\ hover'[1].result = hover[1].result]_vars

\* A hover that returned documentation was requested both without a session and
\* while a session with cached documentation was active.
C14_HoverAcrossSession ==
    /\ hover # undefined
    /\ hover[1].result # undefined
    /\ hover[1].sessions = {TRUE, FALSE}

\* ------------------------------------------------------------------------
\* Properties of the parameter splitter
\* ------------------------------------------------------------------------

\* Whether the character at 0-based index idx of s lies inside a quoted region.
Quoted(s, idx) == Cardinality({j \in 1..idx : s[j] = "\""}) % 2 = 1

\* The number of unquoted open characters before index idx of s, less that of
\* the unquoted close characters.
DepthAt(s, idx, open, close) ==
    Cardinality({j \in 1..idx : s[j] = open /\ ~Quoted(s, j - 1)})
    - Cardinality({j \in 1..idx : s[j] = close /\ ~Quoted(s, j - 1)})

\* Whether the comma at index idx of s separates two parameters of the outermost list.
SeparatesParameters(s, idx) ==
    /\ ~Quoted(s, idx)
    /\ DepthAt(s, idx, "{", "}") = 0
    /\ DepthAt(s, idx, "(", ")") = 1

\* Whether a span of spans ends at index idx and the next one starts after it.
EndsParameterAt(spans, idx) ==
    \E k \in 1..Len(spans) - 1 : spans[k][2] = idx /\ spans[k + 1][1] = idx + 1

\* label.slice(start, end)
SpanText(label, span) == JSSlice(label, span[1], span[2])

\* Every comma of the formal spec ends a parameter exactly when it separates parameters.
SplitsAtSeparatorsOnly ==
    paramsArr # undefined =>
        \A idx \in 0..Len(formalSpecText) - 1 :
            formalSpecText[idx + 1] = "," =>
                (EndsParameterAt(paramsArr[1], idx) <=> SeparatesParameters(formalSpecText, idx))

\* C15 as amended: formalSpecToParamsArr ends a parameter at a comma if and
\* only if, at that comma, the scan is outside a quoted region, brace depth is
\* zero and paren depth is exactly 1. For (a, b(x,y), "c,d") it yields exactly
\* 3 parameters; the first span's text is a, and the second and third start
\* right after their comma, so their texts are b(x,y) and "c,d" each preceded
\* by the blank that follows the comma.
C15_SplitsAtTopLevelCommas ==
    /\ SplitsAtSeparatorsOnly
    /\ (paramsArr # undefined /\ formalSpecText = NestedAndQuoted) =>
          /\ Len(paramsArr[1]) = 3
          /\ SpanText(formalSpecText, paramsArr[1][1]) = <<"a">>
          /\ SpanText(formalSpecText, paramsArr[1][2]) = <<" ", "b", "(", "x", ",", "y", ")">>
          /\ SpanText(formalSpecText, paramsArr[1][3]) = <<" ", "\"", "c", ",", "d", "\"">>

\* (a, b(x,y), "c,d") has been split.
C15_NestedAndQuotedSplit ==
    /\ paramsArr # undefined
    /\ formalSpecText = NestedAndQuoted
    /\ Len(paramsArr[1]) = 3

\* C15 as stated: a comma ends a parameter if and only if it is outside quotes,
\* at brace depth zero and at paren depth exactly 1, and (a, b(x,y), "c,d")
\* yields exactly 3 parameters whose span texts are a, b(x,y) and "c,d".
C15_SpanTextsAreTheParameters ==
    /\ SplitsAtSeparatorsOnly
    /\ (paramsArr # undefined /\ formalSpecText = NestedAndQuoted) =>
          /\ Len(paramsArr[1]) = 3
          /\ SpanText(formalSpecText, paramsArr[1][1]) = <<"a">>
          /\ SpanText(formalSpecText, paramsArr[1][2]) = <<"b", "(", "x", ",", "y", ")">>
          /\ SpanText(formalSpecText, paramsArr[1][3]) = <<"\"", "c", ",", "d", "\"">>

\* Whether s has the form "(" balanced-content ")": it is enclosed by a pair of
\* parentheses, and between them the quotes pair up and the unquoted parentheses
\* and braces match.
Balanced(s) ==
    /\ Len(s) >= 2
    /\ s[1] = "(" /\ s[Len(s)] = ")"
    /\ ~Quoted(s, Len(s))
    /\ DepthAt(s, Len(s), "(", ")") = 0
    /\ DepthAt(s, Len(s), "{", "}") = 0
    /\ \A idx \in 1..Len(s) - 1 :
          /\ DepthAt(s, idx, "(", ")") >= 1
          /\ DepthAt(s, idx, "{", "}") >= 0

\* The commas of s that belong to the outermost list.
TopLevelCommas(s) ==
    {idx \in 0..Len(s) - 1 : s[idx + 1] = "," /\ SeparatesParameters(s, idx)}

\* C16: for every formal spec of the form "(" balanced-content ")", the number
\* of spans formalSpecToParamsArr returns is the number of top-level commas
\* plus one, except that a formal spec equal to "()" once whitespace is removed
\* yields no span.
C16_SpanCountIsCommasPlusOne ==
    (paramsArr # undefined /\ Balanced(formalSpecText)) =>
        Len(paramsArr[1]) = IF RemoveWhitespace(formalSpecText) = <<"(", ")">> THEN 0
                            ELSE Cardinality(TopLevelCommas(formalSpecText)) + 1

\* A balanced formal spec with several top-level commas and a comma that is not
\* top-level has been split.
C16_BalancedListSplit ==
    /\ paramsArr # undefined
    /\ Balanced(formalSpecText)
    /\ Cardinality(TopLevelCommas(formalSpecText)) >= 2
    /\ \E idx \in 0..Len(formalSpecText) - 1 :
          formalSpecText[idx + 1] = "," /\ idx \notin TopLevelCommas(formalSpecText)
    /\ Len(paramsArr[1]) = Cardinality(TopLevelCommas(formalSpecText)) + 1

\* ------------------------------------------------------------------------
\* Properties of the parameter spans of a signature
\* ------------------------------------------------------------------------

RECURSIVE Ascending(_)
\* The members of a set of numbers, smallest first.
Ascending(S) ==
    IF S = {} THEN <<>>
    ELSE LET least == CHOOSE m \in S : \A other \in S : m <= other
         IN  <<least>> \o Ascending(S \ {least})

\* The index of the "(" that opens the parameter list of a label, or -1 when
\* the label has none and is a list by itself.
ListOpen(label) == IndexOf(label, "(")

\* The index of the ")" that closes the parameter list, or the label's length.
ListClose(label) ==
    LET closing == {idx \in ListOpen(label) + 1..Len(label) - 1 :
                       /\ ListOpen(label) # -1
                       /\ label[idx + 1] = ")"
                       /\ ~Quoted(label, idx)
                       /\ DepthAt(label, idx, "(", ")") = 1}
    IN  IF closing = {} THEN Len(label) ELSE Ascending(closing)[1]

\* The commas that separate the parameters of the list of a label.
ListSeparators(label) ==
    {idx \in ListOpen(label) + 1..ListClose(label) - 1 :
        /\ label[idx + 1] = ","
        /\ ~Quoted(label, idx)
        /\ DepthAt(label, idx, "{", "}") = 0
        /\ DepthAt(label, idx, "(", ")") = IF ListOpen(label) = -1 THEN 0 ELSE 1}

\* The texts of the parameters a label shows, blanks around them left out.
ParameterTexts(label) ==
    LET cuts == <<ListOpen(label)>> \o Ascending(ListSeparators(label)) \o <<ListClose(label)>>
    IN  IF Trim(JSSlice(label, ListOpen(label) + 1, ListClose(label))) = <<>> THEN <<>>
        ELSE [k \in 1..Len(cuts) - 1 |-> Trim(JSSlice(label, cuts[k] + 1, cuts[k + 1]))]

\* Whether the spans of a signature are those of the parameters its label shows.
SpansMatchLabel(sig) ==
    LET spans == sig.parameters
    IN  /\ Len(spans) = Len(ParameterTexts(sig.label))
        /\ \A k \in 1..Len(spans) :
              /\ 0 <= spans[k][1]
              /\ spans[k][1] <= spans[k][2]
              /\ spans[k][2] <= Len(sig.label)
              /\ k < Len(spans) => /\ spans[k][2] <= spans[k + 1][1]
                                   /\ spans[k][1] < spans[k + 1][1]
        /\ \A k \in 1..Len(spans) :
              k <= Len(ParameterTexts(sig.label)) =>
                  Trim(SpanText(sig.label, spans[k])) = ParameterTexts(sig.label)[k]

\* C17: in every signature the engine builds (macro, class member, routine),
\* each parameter span [start, end) lies within the label, the spans do not
\* overlap and increase in parameter order, the label's text under a span is
\* the text of that parameter (blanks around it aside), and a label without
\* parameters has no span.
C17_SpansMatchParameters ==
    (returned # undefined /\ returned[1].result # undefined) =>
        \A k \in 1..Len(returned[1].result[1].signatures) :
            SpansMatchLabel(returned[1].result[1].signatures[k])

\* ------------------------------------------------------------------------
\* Properties of the argument emphasis
\* ------------------------------------------------------------------------

\* The indexes of the blanks that delimit the tokens of an argument list.
Delimiters(arglist) ==
    {idx \in 0..Len(arglist) - 1 : NormalizeNbsp(arglist)[idx + 1] = " "}

\* The number of space-delimited tokens of an argument list.
TokenCount(arglist) == Cardinality(Delimiters(arglist)) + 1

\* The argument list with the markers around its n-th space-delimited token
\* and its whitespace removed.
WithTokenEmphasized(arglist, n) ==
    LET cuts == <<-1>> \o Ascending(Delimiters(arglist)) \o <<Len(arglist)>>
    IN  RemoveWhitespace(JSSlice(arglist, 0, cuts[n] + 1))
        \o emphasizePrefix
        \o JSSlice(arglist, cuts[n] + 1, cuts[n + 1])
        \o emphasizeSuffix
        \o RemoveWhitespace(JSSlice(arglist, cuts[n + 1], Len(arglist)))

\* C18: for every argument list and every n from 1 to its number of
\* space-delimited tokens, emphasizeArgument puts the prefix marker right
\* before and the suffix marker right after the n-th token, and nowhere else;
\* so for a middle argument of a list of four, and for A B C with n = 1 and n = 3.
C18_EmphasizesNthToken ==
    (emphasizedList # undefined /\ argumentNumber <= TokenCount(argumentList)) =>
        emphasizedList[1] = WithTokenEmphasized(argumentList, argumentNumber)

\* The text a result holds between the prefix marker and the suffix marker.
Enclosed(result) ==
    JSSlice(result, IndexOf(result, "%") + Len(emphasizePrefix), IndexOf(result, "@"))

\* Whether a result holds each marker once, the prefix before the suffix.
MarkedOnce(result) ==
    /\ CountChar(result, "%") = Len(emphasizePrefix)
    /\ CountChar(result, "@") = Len(emphasizeSuffix)
    /\ JSSlice(result, IndexOf(result, "%"), IndexOf(result, "%") + Len(emphasizePrefix))
           = emphasizePrefix
    /\ JSSlice(result, IndexOf(result, "@"), IndexOf(result, "@") + Len(emphasizeSuffix))
           = emphasizeSuffix
    /\ IndexOf(result, "%") < IndexOf(result, "@")

\* C19: emphasizeArgument with n greater than the number of space-delimited
\* tokens returns the argument list with all whitespace removed and no marker;
\* for a list of exactly one token and n = 1 the markers enclose exactly the
\* characters from index 1 up to, not including, the last character.
C19_OutOfRangeAndSingleToken ==
    emphasizedList # undefined =>
        /\ argumentNumber > TokenCount(argumentList) =>
              /\ emphasizedList[1] = RemoveWhitespace(argumentList)
              /\ CountChar(emphasizedList[1], "%") = 0
              /\ CountChar(emphasizedList[1], "@") = 0
        /\ (TokenCount(argumentList) = 1 /\ argumentNumber = 1) =>
              /\ MarkedOnce(emphasizedList[1])
              /\ Enclosed(emphasizedList[1]) = JSSlice(argumentList, 1, Len(argumentList) - 1)

\* A single token of three characters or more has been emphasized with n = 1.
C19_SingleTokenEmphasized ==
    /\ emphasizedList # undefined
    /\ TokenCount(argumentList) = 1
    /\ argumentNumber = 1
    /\ Len(argumentList) >= 3
    /\ Len(Enclosed(emphasizedList[1])) = Len(argumentList) - 2

\* ------------------------------------------------------------------------
\* Properties of the macro opening
\* ------------------------------------------------------------------------

\* Whether label is text with its whitespace removed and one blank put after each comma.
SpacedAfterCommas(label, text) ==
    /\ RemoveWhitespace(label) = RemoveWhitespace(text)
    /\ \A i \in 1..Len(label) :
          /\ IsSpace(label[i]) => (label[i] = " " /\ i > 1 /\ label[i - 1] = ",")
          /\ label[i] = "," => (i < Len(label) /\ label[i + 1] = " ")

\* The label of a signature with the markers around its first argument and its
\* whitespace removed.
WithFirstArgumentEmphasized(label) ==
    LET from == ListOpen(label) + 1
        to   == (Ascending(ListSeparators(label)) \o <<ListClose(label)>>)[1]
    IN  RemoveWhitespace(JSSlice(label, 0, from))
        \o emphasizePrefix
        \o RemoveWhitespace(JSSlice(label, from, to))
        \o emphasizeSuffix
        \o RemoveWhitespace(JSSlice(label, to, Len(label)))

\* The server's answer to the macro signature query of an opening request
\* arrives; the request is the only one in progress.
MacroOpeningAnswered ==
    /\ Len(inflight) = 1
    /\ inflight[1].pc = "macroSignature"
    /\ inflight[1].branch = "open"
    /\ inflight' # inflight

\* What the claim says of request r once the opening has received the
\* signature text: none built when the text is empty; otherwise the label, one
\* span per argument, and the expansion requested with the first argument emphasized.
MacroSignatureBuilt(r, text) ==
    IF text = <<>>
    THEN /\ r.sig = undefined
         /\ r.resolver # "macro"
         /\ r.log = <<"getmacrosignature">> \/ r.log = <<"getmacrosignature", "getRoutineSignatureDetails">>
    ELSE /\ r.sig # undefined
         /\ SpacedAfterCommas(r.sig[1].label, text)
         /\ Len(r.sig[1].parameters) = Len(ParameterTexts(r.sig[1].label))
         /\ r.log = <<"getmacrosignature", "getmacroexpansion">>
         /\ Len(ParameterTexts(r.sig[1].label)) > 0 =>
                r.expargs = WithFirstArgumentEmphasized(r.sig[1].label)

\* C20: when "(" is typed right after a macro and the server's signature is a
\* non-empty string, the label is that string without whitespace and with one
\* blank after each comma, the parameters hold one span per argument, one
\* expansion request is issued with the first argument emphasized, and the
\* start position recorded is the cursor position; an empty signature yields no
\* macro signature.
C20_MacroOpening ==
    /\ [][MacroOpeningAnswered =>
             \A respdata \in MacroSignatureResponses :
                 (/\ respdata # undefined
                  /\ respdata[1].wellformed
                  /\ Newest(returned', inflight')
                         = MacroSignatureStep(inflight[1], Globals, doc, respdata).req)
                 => MacroSignatureBuilt(Newest(returned', inflight'), respdata[1].content)]_vars
    /\ [](( /\ returned # undefined
            /\ returned[1].branch = "open"
            /\ returned[1].resolver = "macro"
            /\ returned[1].result # undefined)
          => /\ signatureHelpStartPosition = Some(returned[1].position)
             /\ returned[1].log = <<"getmacrosignature", "getmacroexpansion">>
             /\ returned[1].result[1].signatures[1].label = returned[1].sig[1].label
             /\ returned[1].result[1].signatures[1].parameters = returned[1].sig[1].parameters)

\* ------------------------------------------------------------------------
\* Properties of the class-member resolver
\* ------------------------------------------------------------------------

\* The member a suspended request is resolving.
MemberOf(r) == TokenText(doc, doc.parsed, r.parenLine, r.parenToken - 1)

\* The answer to the member query of the only request in progress arrives.
MemberAnswered ==
    /\ Len(inflight) = 1
    /\ inflight[1].pc = "member"
    /\ (inflight' # inflight \/ returned' # returned)

\* Whether the step taken is the member resolver's continuation for these answers.
MemberAnsweredWith(baseclass, documentation, respdata, stubrespdata) ==
    LET out == MemberStep(inflight[1], Globals, doc, baseclass, documentation,
                          respdata, stubrespdata)
    IN  /\ Newest(returned', inflight') = out.req
        /\ signatureHelpStartPosition' = out.start
        /\ signatureHelpDocumentationCache' = out.cache

\* The answers the stub follow-up may get for the answer to the member query.
StubAnswers(member, respdata) ==
    IF StubQueryIssued(member, respdata) THEN StubResponses ELSE {undefined}

\* Whether the member query shows no post-construction hook overridden: one row
\* only, or a second row whose origin is the library default.
NoHookOverridden(respdata) ==
    /\ HasRows(respdata)
    /\ \/ Len(respdata[1].content) = 1
       \/ /\ Len(respdata[1].content) = 2
          /\ respdata[1].content[2].Origin = "%Library.RegisteredObject"

\* The member a hover request is on, or the empty string.
HoverMember(request) ==
    LET found == findOpenParen(doc, doc.parsed, request.position.line, request.tokenIndex)
    IN  IF found[1] = -1 \/ found[2] < 1 THEN <<>>
        ELSE IF ~IsMemberToken(doc.parsed[found[1] + 1][found[2]]) THEN <<>>
        ELSE TokenText(doc, doc.parsed, found[1], found[2] - 1)

\* Whether the hover on record is a class-member hover on member whose class is known.
ClassHoverOn(member) ==
    /\ hover # undefined
    /\ hover[1].request.provider = "getClassMethodHover"
    /\ HoverMember(hover[1].request) = member
    /\ hover[1].request.answers[1] # <<>>

\* C21: when the callee is %New and the member query shows no overridden
\* post-construction hook, the class-member resolver yields a signature with
\* zero parameters, not a missing one, in signature help and in hover.
C21_NewWithoutHookHasNoParameters ==
    /\ [][(MemberAnswered /\ MemberOf(inflight[1]) = NewMember) =>
             \A documentation \in BOOLEAN, respdata \in QueryResponses(NewMember) :
                 (/\ NoHookOverridden(respdata)
                  /\ MemberAnsweredWith(<<"C">>, documentation, respdata, undefined))
                 => /\ returned' # undefined
                    /\ returned'[1].result # undefined
                    /\ returned'[1].result[1].signatures[1].parameters = <<>>]_vars
    /\ []((ClassHoverOn(NewMember) /\ NoHookOverridden(hover[1].request.answers[2]))
          => hover[1].result # undefined)

\* ------------------------------------------------------------------------
\* Properties of the routine resolver
\* ------------------------------------------------------------------------

\* The routine resolver of the only request in progress answers.
RoutineAnswered ==
    /\ Len(inflight) = 1
    /\ inflight[1].pc = "routine"
    /\ inflight' # inflight

\* The lines a routine's source can consist of: those fetched from the server
\* or those of the open document.
RoutineSources == RoutineTexts \cup {doc.lines}

\* Whether the only line of routineLines that starts with label is a line
\* label(p1,...,pn): the list opens right after the label and closes on the line.
LabelLineHasList(routineLines, label) ==
    /\ Cardinality({i \in 1..Len(routineLines) : StartsWith(routineLines[i], label)}) = 1
    /\ \E i \in 1..Len(routineLines) :
          /\ StartsWith(routineLines[i], label)
          /\ ListOpen(routineLines[i]) = Len(label)
          /\ ListClose(routineLines[i]) < Len(routineLines[i])

\* The parameters p1,...,pn of that line.
LabelLineParameters(routineLines, label) ==
    ParameterTexts(routineLines[CHOOSE i \in 1..Len(routineLines) : StartsWith(routineLines[i], label)])

\* Whether the step from request r answered it with the signature the routine
\* resolver builds from routineLines.
RoutineAnsweredFrom(r, call, routineLines) ==
    LET out == RoutineStep(r, Globals, doc,
                           RoutineDetails(doc, r.parenLine, r.parenToken, call, Some(routineLines)))
    IN  /\ returned' = Some(out.req)
        /\ signatureHelpStartPosition' = out.start
        /\ signatureHelpDocumentationCache' = out.cache

\* What the claim says of the answer to request r: the label, the spans and the
\* start position.
RoutineSignatureIs(r, answer, label, params) ==
    /\ answer.result # undefined
    /\ Len(answer.result[1].signatures) = 1
    /\ LET sig == answer.result[1].signatures[1]
       IN  /\ sig.label = label \o <<"(">> \o Join(params, <<",", " ">>) \o <<")">>
           /\ Len(sig.parameters) = Len(params)
           /\ \A k \in 1..Len(params) : SpanText(sig.label, sig.parameters[k]) = params[k]
    /\ doc.lines[r.parenLine + 1][doc.parsed[r.parenLine + 1][r.parenToken + 1].p + 1] = "("
    /\ signatureHelpStartPosition' =
           Some(Position(r.parenLine, doc.parsed[r.parenLine + 1][r.parenToken + 1].p + 1))

\* C22: when the routine resolver answers for a call of a label whose label
\* line in the routine's source is label(p1,...,pn), the signature's label is
\* the label, "(", the trimmed parameters joined by ", " and ")", there are
\* exactly n spans, the label's text under span i is p_i, and the start position
\* is on the call's line at the column right after the call's "(".
C22_RoutineSignatureFromLabelLine ==
    [][RoutineAnswered =>
          \A call \in {RoutineCall(doc, inflight[1].parenLine, inflight[1].parenToken)} :
          \A routineLines \in RoutineSources :
              (/\ call # undefined
               /\ LabelLineHasList(routineLines, call[1].label)
               /\ RoutineAnsweredFrom(inflight[1], call, routineLines))
              => RoutineSignatureIs(inflight[1], returned'[1], call[1].label,
                                    LabelLineParameters(routineLines, call[1].label))]_vars

\* A request answered by the routine resolver with "L(p, q)" and two parameters.
C22_TwoParameterLabel ==
    /\ returned # undefined
    /\ returned[1].resolver = "routine"
    /\ returned[1].result # undefined
    /\ returned[1].result[1].signatures[1].label = <<"L", "(", "p", ",", " ", "q", ")">>
    /\ Len(returned[1].result[1].signatures[1].parameters) = 2
    /\ signatureHelpStartPosition = Some(Position(1, 8))

\* ------------------------------------------------------------------------
\* Properties of the session across both paths
\* ------------------------------------------------------------------------

\* A step that writes the start position or the documentation cache.
SessionWritten ==
    \/ signatureHelpStartPosition' # signatureHelpStartPosition
    \/ signatureHelpDocumentationCache' # signatureHelpDocumentationCache

\* Whether request r is a retrigger with ")" just before the cursor.
ClosesCall(r) == r.isRetrigger /\ PrevChar(doc, r.position) = <<")">>

\* C23: a step of a request that writes the session start position or the
\* documentation cache, other than a ")" close, is the step in which that
\* request returns, and it returns a signature help: a request that returns no
\* result without being a ")" close leaves both as they were.
C23_WritesOnlyWithResult ==
    [][SessionWritten =>
          /\ returned' # undefined
          /\ ~ClosesCall(returned'[1]) =>
                 /\ returned'[1].threw = undefined
                 /\ returned'[1].result # undefined]_vars

\* The type a documentation cache has when the resolver of the given kind
\* produced it.
CacheTypeOf(kind) == IF kind = "member" THEN "method" ELSE kind

\* C24: whenever a session is active, the documentation cache is absent or
\* was produced for the active signature: its type is that of the resolver that
\* produced the signature the start position belongs to.
C24_CacheBelongsToActiveSignature ==
    (sessionKind # "none" /\ signatureHelpDocumentationCache # undefined) =>
        signatureHelpDocumentationCache[1].type = CacheTypeOf(sessionKind)

\* The request r would be, had "(" just been typed at the call it found.
OpenedAt(r) ==
    [r EXCEPT !.branch = "open", !.position = AfterParen(doc, r.parenLine, r.parenToken)]

\* Whether two outcomes return the same signature (label and spans) or both
\* none, and record the same start position.
SameSignatureAndStart(a, b) ==
    /\ a.req.result = undefined <=> b.req.result = undefined
    /\ a.req.result # undefined =>
           /\ a.req.result[1].signatures[1].label = b.req.result[1].signatures[1].label
           /\ a.req.result[1].signatures[1].parameters = b.req.result[1].signatures[1].parameters
    /\ a.start = b.start

\* C25: when the class-member resolver answers a request triggered by "," or
\* Invoked inside an argument list, the signature (label and spans) and the
\* start position are those the same answers give a request triggered by
\* typing the "(" of that call, whenever that request is answered by the
\* class-member resolver too; one returns a signature exactly when the other does.
C25_PathsAgreeOnMember ==
    [][(MemberAnswered /\ inflight[1].branch = "rediscover") =>
          \A baseclass \in BaseClasses, documentation \in BOOLEAN,
             respdata \in QueryResponses(MemberOf(inflight[1])) :
          \A stubrespdata \in StubAnswers(MemberOf(inflight[1]), respdata) :
          \A opened \in {MemberStep(OpenedAt(inflight[1]), Globals, doc,
                                     baseclass, documentation, respdata, stubrespdata)} :
              (/\ MemberAnsweredWith(baseclass, documentation, respdata, stubrespdata)
               /\ opened.req.pc = "done")
              => SameSignatureAndStart(
                     MemberStep(inflight[1], Globals, doc, baseclass, documentation,
                                respdata, stubrespdata),
                     opened)]_vars

\* A step of a request received while a start position is recorded: its
\* arrival, or the answer to the expansion query of its retrigger branch.
StepInSession ==
    /\ signatureHelpStartPosition # undefined
    /\ \/ requests' = requests + 1
       \/ /\ Len(inflight) = 1
          /\ inflight[1].branch = "retrigger"
          /\ inflight' # inflight

\* A retrigger whose trigger character is not "(", that carries the active
\* signature help, with a character other than ")" before the cursor.
RetriggersInsideCall(r) ==
    /\ r.isRetrigger
    /\ r.triggerCharacter # "("
    /\ r.activeSignatureHelp # undefined
    /\ PrevChar(doc, r.position) # <<")">>

\* Whether help differs from the active signature help in nothing but the
\* active parameter and the documentation of its signatures.
SameLabelsAndSpans(help, active) ==
    /\ help.activeSignature = active.activeSignature
    /\ Len(help.signatures) = Len(active.signatures)
    /\ \A k \in 1..Len(help.signatures) :
          /\ help.signatures[k].label = active.signatures[k].label
          /\ help.signatures[k].parameters = active.signatures[k].parameters

\* Whether a step changes nothing of the documentation cache but its documentation.
OnlyCachedDocumentationChanges ==
    signatureHelpDocumentationCache' # signatureHelpDocumentationCache =>
        /\ signatureHelpDocumentationCache # undefined
        /\ signatureHelpDocumentationCache' # undefined
        /\ signatureHelpDocumentationCache'[1].type = signatureHelpDocumentationCache[1].type

\* C26: a retrigger with a trigger character other than "(", received while a
\* session is active and with a character other than ")" before the cursor,
\* leaves the start position unchanged, and the signature help it returns has
\* the labels and spans of the active signature help: only the active
\* parameter, the signature's documentation and the cached documentation change.
C26_RetriggerKeepsStartLabelAndSpans ==
    [][StepInSession =>
          \A r \in {Newest(returned', inflight')} :
              RetriggersInsideCall(r) =>
                  /\ signatureHelpStartPosition' = signatureHelpStartPosition
                  /\ signatureHelpMacroCache' = signatureHelpMacroCache
                  /\ OnlyCachedDocumentationChanges
                  /\ (returned' # undefined /\ r.result # undefined) =>
                         SameLabelsAndSpans(r.result[1], r.activeSignatureHelp[1])]_vars

\* A retrigger inside a call has returned the active signature help with
\* another active parameter, while the session stays active.
C26_RetriggerMovedActiveParameter ==
    /\ returned # undefined
    /\ RetriggersInsideCall(returned[1])
    /\ signatureHelpStartPosition # undefined
    /\ returned[1].result # undefined
    /\ returned[1].result[1].activeParameter # returned[1].activeSignatureHelp[1].activeParameter
    /\ returned[1].result[1].signatures[1].label = returned[1].activeSignatureHelp[1].signatures[1].label

\* ------------------------------------------------------------------------
\* Properties of the class-member resolver
\* ------------------------------------------------------------------------

\* The members whose label names the class they are called on.
ReturnsInstance == {NewMember} \cup FactoryMembers

\* The row whose formal spec is finally selected: the hook's row for %New, the
\* row of the stub follow-up when it returned one, the method's row otherwise.
SelectedRow(member, respdata, stubrespdata) ==
    IF member = NewMember THEN respdata[1].content[2]
    ELSE IF stubrespdata # undefined /\ HasRows(stubrespdata) THEN stubrespdata[1].content[1]
    ELSE respdata[1].content[1]

\* The label C27 states for a member, the class it is called on and the selected row.
SuffixedLabel(member, baseclass, row) ==
    beautifyFormalSpec(row.FormalSpec)
    \o (IF member \in ReturnsInstance THEN <<" ", "A", "s", " ">> \o baseclass
        ELSE IF row.ReturnType # <<>> THEN <<" ", "A", "s", " ">> \o row.ReturnType
        ELSE <<>>)

\* Whether sig has that label, and the spans of the formal spec without its suffix.
LabelledAsStated(sig, member, baseclass, row) ==
    /\ sig.label = SuffixedLabel(member, baseclass, row)
    /\ sig.parameters = formalSpecToParamsArr(beautifyFormalSpec(row.FormalSpec))
    /\ \A k \in 1..Len(sig.parameters) :
          sig.parameters[k][2] <= Len(beautifyFormalSpec(row.FormalSpec))

\* Whether the signature help returned for request r, and the signature the
\* hover's resolver builds from the same answers, are labelled as stated.
MemberLabelledAsStated(r, baseclass, respdata, stubrespdata) ==
    LET member  == MemberOf(r)
        row     == SelectedRow(member, respdata, stubrespdata)
        details == getMethodSignatureDetails(doc, r.parenLine, r.parenToken,
                                             baseclass, respdata, stubrespdata)
    IN  /\ (returned' # undefined /\ returned'[1].result # undefined
            /\ returned'[1].resolver = "member")
           => LabelledAsStated(returned'[1].result[1].signatures[1], member, baseclass, row)
        /\ details # undefined => LabelledAsStated(details[1].signature, member, baseclass, row)

\* C27: the label of a class-member signature is the beautified formal spec
\* followed by " As " and the base class for %New (with an overridden hook),
\* %Open and %OpenId, by " As " and the return type for other members that
\* have one, and by nothing otherwise; the spans are those of the formal spec
\* without the suffix.
C27_MemberLabelSuffix ==
    [][MemberAnswered =>
          \A baseclass \in BaseClasses, documentation \in BOOLEAN,
             respdata \in QueryResponses(MemberOf(inflight[1])) :
          \A stubrespdata \in StubAnswers(MemberOf(inflight[1]), respdata) :
              MemberAnsweredWith(baseclass, documentation, respdata, stubrespdata)
              => MemberLabelledAsStated(inflight[1], baseclass, respdata, stubrespdata)]_vars

\* The signature of %New with an overridden hook "x,y" in class C has been returned.
C27_HookLabelled ==
    /\ returned # undefined
    /\ returned[1].resolver = "member"
    /\ MemberOf(returned[1]) = NewMember
    /\ returned[1].result # undefined
    /\ returned[1].result[1].signatures[1].label = <<"(", "x", ",", "y", ")", " ", "A", "s", " ", "C">>
    /\ Len(returned[1].result[1].signatures[1].parameters) = 2

\* Whether the answers select a row: rows came back and, for %New, the hook is
\* overridden.
RowSelected(member, respdata) ==
    /\ HasRows(respdata)
    /\ member = NewMember =>
           /\ Len(respdata[1].content) = 2
           /\ respdata[1].content[2].Origin # "%Library.RegisteredObject"

\* C28: when the formal spec finally selected is empty (the hook's for %New,
\* the stub row's when the stub follow-up returned a row, the method row's
\* otherwise), the class-member resolver yields no signature, in signature help
\* and in hover alike.
C28_EmptyFormalSpecYieldsNoSignature ==
    [][MemberAnswered =>
          \A baseclass \in BaseClasses \ {<<>>}, documentation \in BOOLEAN,
             respdata \in QueryResponses(MemberOf(inflight[1])) :
          \A stubrespdata \in StubAnswers(MemberOf(inflight[1]), respdata) :
              (/\ MemberAnsweredWith(baseclass, documentation, respdata, stubrespdata)
               /\ RowSelected(MemberOf(inflight[1]), respdata)
               /\ SelectedRow(MemberOf(inflight[1]), respdata, stubrespdata).FormalSpec = <<>>)
              => /\ Newest(returned', inflight').resolver # "member"
                 /\ getMethodSignatureDetails(doc, inflight[1].parenLine, inflight[1].parenToken,
                                              baseclass, respdata, stubrespdata) = undefined]_vars

\* ------------------------------------------------------------------------
\* Properties of the label lookup
\* ------------------------------------------------------------------------

\* The markers that start a comment right after a label.
CommentMarkers == {<<";">>, <<"/", "/">>, <<"/", "*">>, <<"#", "#", ";">>}

\* Whether, in a line that starts with label, the label is followed by the end
\* of the line (trailing whitespace aside), a space or tab, "(" or a comment marker.
FollowedAsStated(line, label) ==
    LET rest == SubSeq(line, Len(label) + 1, Len(line))
    IN  \/ \A k \in 1..Len(rest) : IsSpace(rest[k])
        \/ Len(rest) > 0 /\ rest[1] \in {" ", "\t", "("}
        \/ \E marker \in CommentMarkers : StartsWith(rest, marker)

\* The (1-based) lines that qualify as the label line of label.
QualifyingLines(lines, label) ==
    {i \in 1..Len(lines) : StartsWith(lines[i], label) /\ FollowedAsStated(lines[i], label)}

\* C29: the label line chosen is the first line that starts with the label
\* and in which the label is followed by the end of the line, a space or tab,
\* "(" or a comment marker; the chosen line's identifier is never longer than
\* the label; when no line qualifies there is no signature.
C29_FirstQualifyingLineChosen ==
    labelDetails # undefined =>
        LET found      == labelDetails[1]
            qualifying == QualifyingLines(routineSource, found.label)
        IN  /\ qualifying = {} => (found.labelLineIndex = -1 /\ found.details = undefined)
            /\ qualifying # {} => /\ found.labelLineIndex + 1 = Ascending(qualifying)[1]
                                  /\ found.details # undefined
            /\ found.labelLineIndex # -1 =>
                   ~IsIdentChar(CharAt(routineSource[found.labelLineIndex + 1], Len(found.label)))

\* The first line starts with the label followed by more of an identifier, and
\* the second line, L(a), is the one chosen.
C29_LongerIdentifierSkipped ==
    /\ labelDetails # undefined
    /\ StartsWith(routineSource[1], <<"L", "a">>)
    /\ routineSource[2] = <<"L", "(", "a">>
    /\ labelDetails[1].labelLineIndex = 1
    /\ labelDetails[1].details # undefined
    /\ labelDetails[1].details[1].signature.label = <<"L", "(", "a", ")">>

\* The index at which the trailing comment of a line starts, with markers the
\* comment markers looked for, or the line's length.
CommentStart(line, markers) ==
    LET starts == {idx \in 0..Len(line) - 1 :
                      \E marker \in markers : StartsWith(SubSeq(line, idx + 1, Len(line)), marker)}
    IN  IF starts = {} THEN Len(line) ELSE Ascending(starts)[1]

\* A line without its trailing comment.
WithoutComment(line, markers) == SubSeq(line, 1, CommentStart(line, markers))

RECURSIVE ParameterTextFrom(_, _, _, _)
\* The parameter text C30 states: text, and the following lines from the i-th
\* on without their comments, until text holds a ")" or a line begins with a
\* letter or "%".
ParameterTextFrom(lines, i, text, markers) ==
    IF IndexOf(text, ")") # -1 THEN JSSlice(text, 0, IndexOf(text, ")"))
    ELSE IF i > Len(lines) THEN text
    ELSE IF IsIdentStart(CharAt(WithoutComment(lines[i], markers), 0)) THEN text
    ELSE ParameterTextFrom(lines, i + 1, text \o WithoutComment(lines[i], markers), markers)

\* Whether the parameter list of the label line found opens without closing
\* on that line, its comment aside.
ListContinues(found, markers) ==
    /\ found.details # undefined
    /\ IndexOf(WithoutComment(routineSource[found.labelLineIndex + 1], markers), "(") # -1
    /\ IndexOf(WithoutComment(routineSource[found.labelLineIndex + 1], markers), ")") = -1

\* Whether the label of the signature found shows, blanks aside, the parameters
\* of the text C30 states.
ShowsStatedParameters(found, markers) ==
    LET line == WithoutComment(routineSource[found.labelLineIndex + 1], markers)
        text == ParameterTextFrom(routineSource, found.labelLineIndex + 2,
                                  JSSlice(line, IndexOf(line, "(") + 1, Len(line)), markers)
    IN  RemoveWhitespace(found.details[1].signature.label)
        = RemoveWhitespace(found.label \o <<"(">>
                           \o Join(splitRoutineParams(text), <<",">>) \o <<")">>)

\* C30: when the label line, its trailing comment aside, holds "(" but no
\* ")", the parameter text is what follows the "(" and then the following
\* lines, up to the first ")"; a following line is taken only if, its comment
\* aside, it does not begin with a letter or "%"; no text of a trailing
\* comment of these lines is part of it.
C30_ContinuationWithoutComments ==
    (labelDetails # undefined /\ ListContinues(labelDetails[1], CommentMarkers))
    => ShowsStatedParameters(labelDetails[1], CommentMarkers)

\* The marker stripRoutineComment looks for.
SemicolonOnly == {<<";">>}

\* Whether the parameter list of the label line found opens on that line and
\* no line from there to the routine's last line closes it.
ListNeverCloses(found) ==
    /\ found.labelLineIndex # -1
    /\ IndexOf(WithoutComment(routineSource[found.labelLineIndex + 1], SemicolonOnly), "(") # -1
    /\ \A i \in found.labelLineIndex + 1..Len(routineSource) :
          IndexOf(WithoutComment(routineSource[i], SemicolonOnly), ")") = -1

\* C31: when the parameter list opened on the label line is closed on no line
\* up to the routine's last, the resolver still returns a signature, and its
\* parameters are the split of the text joined from the label line onward.
C31_UnclosedListStillSplit ==
    (labelDetails # undefined /\ ListNeverCloses(labelDetails[1])) =>
        /\ labelDetails[1].details # undefined
        /\ ShowsStatedParameters(labelDetails[1], SemicolonOnly)
        /\ Len(labelDetails[1].details[1].signature.parameters)
              = Len(ParameterTexts(labelDetails[1].details[1].signature.label))

\* The list opened by "L(a" goes on with ",a" on the last line and never
\* closes: the signature is L(a, a).
C31_UnclosedTwoLines ==
    /\ labelDetails # undefined
    /\ routineSource = << <<"L", "(", "a">>, <<",", "a">> >>
    /\ labelDetails[1].details # undefined
    /\ labelDetails[1].details[1].signature.label = <<"L", "(", "a", ",", " ", "a", ")">>
    /\ Len(labelDetails[1].details[1].signature.parameters) = 2

\* ------------------------------------------------------------------------
\* Properties of the routine parameter splitter
\* ------------------------------------------------------------------------

\* The commas of s outside quoted regions and at paren depth zero.
PositionCommas(s) ==
    {idx \in 0..Len(s) - 1 :
        s[idx + 1] = "," /\ ~Quoted(s, idx) /\ DepthAt(s, idx, "(", ")") = 0}

\* The trimmed texts of the comma-separated positions of s.
PositionTexts(s) ==
    LET cuts == <<-1>> \o Ascending(PositionCommas(s)) \o <<Len(s)>>
    IN  [k \in 1..Len(cuts) - 1 |-> Trim(JSSlice(s, cuts[k] + 1, cuts[k + 1]))]

RECURSIVE WithoutEmptyTrailing(_)
\* A list of texts without the empty ones at its end.
WithoutEmptyTrailing(texts) ==
    IF texts # <<>> /\ texts[Len(texts)] = <<>>
    THEN WithoutEmptyTrailing(SubSeq(texts, 1, Len(texts) - 1))
    ELSE texts

\* Whether no ")" of s outside quoted regions lacks its "(".
NoStrayClose(s) == \A idx \in 0..Len(s) : DepthAt(s, idx, "(", ")") >= 0

\* C32: splitRoutineParams splits at the commas outside quoted regions and at
\* paren depth zero; the parameters returned are trimmed and not empty; only
\* empty trailing positions are dropped, so that the i-th parameter returned
\* is the text of the i-th position; a text of blanks yields no parameter.
C32_SplitsIntoPositions ==
    (splitParams # undefined /\ NoStrayClose(parameterText)) =>
        /\ \A i \in 1..Len(splitParams[1]) :
              /\ splitParams[1][i] # <<>>
              /\ splitParams[1][i] = Trim(splitParams[1][i])
        /\ splitParams[1] = WithoutEmptyTrailing(PositionTexts(parameterText))

\* ------------------------------------------------------------------------
\* Properties of the engine between two sessions
\* ------------------------------------------------------------------------

\* The arrival of a request while no start position is recorded.
ArrivesIdle == requests' = requests + 1 /\ signatureHelpStartPosition = undefined

\* Whether request r is a retrigger whose trigger character is not "(".
RetriggersWithoutOpening(r) == r.isRetrigger /\ r.triggerCharacter # "("

\* A retrigger has just closed the session with ")".
JustClosed == ClosingRetrigger /\ Qualifies(doc, returned[1].position)

\* The session variables as the step leaves them.
GlobalsAfter ==
    [start |-> signatureHelpStartPosition',
     cache |-> signatureHelpDocumentationCache',
     macro |-> signatureHelpMacroCache']

\* The outcomes of the retriggers that may come next, the client showing no
\* signature help: those that return at once with a trigger character other
\* than "(".
NextRetriggers ==
    {out \in {Dispatch(NewRequest(position, triggerKind,
                                  IF triggerKind = "TriggerCharacter"
                                  THEN CharOf(PrevChar(doc, position)) ELSE "undefined",
                                  TRUE, undefined, GlobalsAfter),
                       GlobalsAfter, doc) :
                  position \in CursorPositions(doc), triggerKind \in TriggerKinds} :
        out.req.pc = "done" /\ RetriggersWithoutOpening(out.req)}

\* C33: once a session has been closed by ")", and until an opening or a
\* re-discovery records a session again, a retrigger whose trigger character is
\* not "(" returns no result and leaves the session cleared: start position,
\* documentation cache and macro expansion context are absent after it.
C33_IdleRetriggerLeavesAllCleared ==
    [][(requests' = requests + 1 /\ JustClosed') =>
          \A out \in NextRetriggers :
              /\ out.req.result = undefined
              /\ out.req.threw = undefined
              /\ out.start = undefined
              /\ out.cache = undefined
              /\ out.macro = undefined]_vars

\* C33, amended: a retrigger whose trigger character is not "(" that arrives
\* while no start position is recorded, after a ")" close or before any session,
\* returns no result without a remote query and leaves the start position and
\* the documentation cache absent; the macro expansion context keeps the value
\* the closed session left in it.
C33_IdleRetriggerChangesNothing ==
    [][ArrivesIdle =>
          /\ signatureHelpDocumentationCache = undefined
          /\ (returned' = undefined /\ inflight'[Len(inflight')].isRetrigger) =>
                 inflight'[Len(inflight')].branch = "open"
          /\ (returned' # undefined /\ RetriggersWithoutOpening(returned'[1])) =>
                 /\ returned'[1].result = undefined
                 /\ returned'[1].threw = undefined
                 /\ returned'[1].log = <<>>
                 /\ signatureHelpStartPosition' = undefined
                 /\ signatureHelpDocumentationCache' = undefined
                 /\ signatureHelpMacroCache' = signatureHelpMacroCache]_vars

\* A retrigger with "," before the cursor has returned after finding no start
\* position and the macro expansion context of a closed macro session.
C33_RetriggerAfterClosedMacro ==
    /\ returned # undefined
    /\ RetriggersWithoutOpening(returned[1])
    /\ Qualifies(doc, returned[1].position)
    /\ PrevChar(doc, returned[1].position) = <<",">>
    /\ returned[1].before[1].start = undefined
    /\ returned[1].before[1].macro # undefined
    /\ signatureHelpMacroCache # undefined
    /\ returned[1].result = undefined

\* ------------------------------------------------------------------------
\* Properties of the token context locator
\* ------------------------------------------------------------------------

\* The indices of the tokens whose inclusive span holds the column.
TokensHolding(tokens, character) ==
    {i \in 0..Len(tokens) - 1 :
        character \in tokens[i + 1].p..tokens[i + 1].p + tokens[i + 1].c}

\* The index the locator is said to return on a line that has tokens.
LocatedAsStated(tokens, character) ==
    IF TokensHolding(tokens, character) # {}
    THEN CHOOSE i \in TokensHolding(tokens, character) :
             \A j \in TokensHolding(tokens, character) : i <= j
    ELSE Len(tokens) - 1

\* The tokens of the line of request r.
LineTokens(r) == doc.parsed[r.position.line + 1]

\* C34: the locator gives the first token of the cursor's line whose inclusive
\* span holds the cursor column, the last token of the line when none holds it,
\* and a request on a line without tokens returns no result without running a
\* resolver.
C34_LocatesFirstHoldingOrLast ==
    /\ \A pos \in CursorPositions(doc) :
          doc.parsed[pos.line + 1] # <<>> =>
              thistokenAt(doc.parsed[pos.line + 1], pos.character)
                  = LocatedAsStated(doc.parsed[pos.line + 1], pos.character)
    /\ \A i \in 1..Len(inflight) : LineTokens(inflight[i]) # <<>>
    /\ (returned # undefined /\ LineTokens(returned[1]) = <<>>) =>
           /\ returned[1].result = undefined
           /\ returned[1].threw = undefined
           /\ returned[1].log = <<>>
           /\ returned[1].before # undefined
           /\ Globals = returned[1].before[1]

\* A request on a line without tokens has returned.
C34_LineWithoutTokens ==
    /\ returned # undefined
    /\ LineTokens(returned[1]) = <<>>
    /\ returned[1].triggerKind = "Invoked"

\* ------------------------------------------------------------------------
\* Properties of the documentation renderer
\* ------------------------------------------------------------------------

\* The parameter-at-source line that names text, and the one that names nothing.
AtSourceLine(text, bold) == <<"Parametro na origem:", " ">> \o InlineCode(text, bold)

EmptyAtSourceLine == <<"Parametro na origem:">>

\* The text of parameter i (0-based) of a signature: its span of the label.
ParameterTextOf(signature, i) ==
    SubSeq(signature.label, signature.parameters[i + 1][1] + 1, signature.parameters[i + 1][2])

\* The index the line is said to name: none without an active index or without
\* parameters, otherwise the active index brought into 0..n-1.
NamedIndex(signature, activeIndex) ==
    LET n == Len(signature.parameters)
    IN  IF activeIndex = undefined \/ n = 0 THEN undefined
        ELSE IF activeIndex[1] < 0 THEN Some(0)
        ELSE IF activeIndex[1] > n - 1 THEN Some(n - 1)
        ELSE activeIndex

\* The label with the span of the named parameter in inline code.
LabelNaming(signature, named, bold) ==
    IF named = undefined THEN signature.label
    ELSE LET span == signature.parameters[named[1] + 1]
         IN  SubSeq(signature.label, 1, span[1])
             \o InlineCode(ParameterTextOf(signature, named[1]), bold)
             \o SubSeq(signature.label, span[2] + 1, Len(signature.label))

\* The documentation said to be built for an input in signature-help or hover
\* context.
DocumentationAsStated(input) ==
    LET named  == NamedIndex(input.signature, input.activeIndex)
        bold   == input.options.boldParameter
        last   == IF named = undefined THEN EmptyAtSourceLine
                  ELSE AtSourceLine(ParameterTextOf(input.signature, named[1]), bold)
        fence  == <<Backquote, Backquote, Backquote>>
        header == IF input.options.showHeaderInHover
                  THEN fence \o <<"\n">> \o input.signature.label \o <<"\n">> \o fence
                       \o <<"\n", "\n">>
                  ELSE <<>>
    IN  IF input.options.context = "signature" THEN last
        ELSE header \o LabelNaming(input.signature, named, bold) \o <<"\n", "\n">> \o last

Calls(op, uri) ==
    /\ formatLog'.call # undefined
    /\ formatLog'.call[1].op = op
    /\ formatLog'.call[1].uri = uri
    /\ clock' = clock

\* What the call that has just been made returned.
Returned == formatLog'.call[1].result[1]

\* C37: after scheduleFormatSkip(u), with no compile block in force for u and
\* no other call on u in between, the next consumeFormatSkip(u) returns true
\* and every one after it returns false; and a call on u leaves what
\* consumeFormatSkip returns for another URI as it was.
C37_ScheduledSkipIsOneShot ==
    [][\A u \in FormatUris :
          /\ Calls("consumeFormatSkip", u) =>
                /\ (formatLog.consumed[u] = 0 /\ ~BlockInForce(u)) => Returned
                /\ formatLog.consumed[u] >= 1 => ~Returned
          /\ (formatLog'.call # undefined /\ formatLog'.call[1].uri = u /\ clock' = clock) =>
                \A v \in FormatUris \ {u} :
                    consumeFormatSkip(FormatControl', v, clock).result
                        = consumeFormatSkip(FormatControl, v, clock).result]_vars

\* A third consumeFormatSkip after a scheduleFormatSkip has returned false.
C37_ConsumedTwiceMore ==
    /\ formatLog.call # undefined
    /\ formatLog.call[1].op = "consumeFormatSkip"
    /\ formatLog.consumed[formatLog.call[1].uri] = MaxConsumed
    /\ formatLog.call[1].result = Some(FALSE)
    /\ compileBlocks # EmptyMap

\* A consumeFormatSkip(u) made while a manual allowance given to u at most
\* manualAllowanceMs ago may be in effect.
AllowedLately(u) ==
    /\ formatLog.allowedAt[u] # undefined
    /\ clock <= formatLog.allowedAt[u][1] + manualAllowanceMs

\* C38: while a compile block is in force for u, consumeFormatSkip(u) returns
\* true and changes nothing; and within manualAllowanceMs of an
\* allowManualFormat(u) made without a pending automatic skip, every
\* consumeFormatSkip(u) returns false.
C38_BlockedThenAllowed ==
    [][\A u \in FormatUris :
          Calls("consumeFormatSkip", u) =>
              /\ BlockInForce(u) => (Returned /\ FormatControl' = FormatControl)
              /\ AllowedLately(u) => ~Returned]_vars

\* C38, amended: the same, the second part holding as long as neither
\* scheduleFormatSkip(u) nor blockFormatAfterCompile(u) has been called since
\* the allowManualFormat(u).
C38_BlockedThenAllowedUnlessRearmed ==
    [][\A u \in FormatUris :
          Calls("consumeFormatSkip", u) =>
              /\ BlockInForce(u) => (Returned /\ FormatControl' = FormatControl)
              /\ (AllowedLately(u) /\ ~formatLog.rearmed[u]) => ~Returned]_vars

\* consumeFormatSkip(u) has returned false at the end of the allowance given
\* to u right after a compile block.
C38_AllowedAfterBlock ==
    \E u \in FormatUris :
        /\ formatLog.call # undefined
        /\ formatLog.call[1].op = "consumeFormatSkip"
        /\ formatLog.call[1].uri = u
        /\ formatLog.call[1].result = Some(FALSE)
        /\ formatLog.allowedAt[u] = Some(0)
        /\ ~formatLog.rearmed[u]
        /\ clock = manualAllowanceMs
        /\ formatLog.call[1].before.manualAllowances[u] # undefined

\* C39: allowManualFormat(u) called while an automatic skip is pending for u
\* changes nothing: the pending skips, the manual allowances and the compile
\* blocks stay as they were, and the next consumeFormatSkip(u) returns true.
C39_AllowIgnoredWhilePending ==
    [][\A u \in FormatUris :
          (Calls("allowManualFormat", u) /\ u \in autoSkipUris) =>
              /\ FormatControl' = FormatControl
              /\ \A now \in Instants :
                    now >= clock => consumeFormatSkip(FormatControl', u, now).result]_vars

\* allowManualFormat(u) has been called while an automatic skip was pending
\* for u under a compile block.
C39_AllowedWhilePending ==
    \E u \in FormatUris :
        /\ formatLog.call # undefined
        /\ formatLog.call[1].op = "allowManualFormat"
        /\ formatLog.call[1].uri = u
        /\ u \in formatLog.call[1].before.autoSkipUris
        /\ formatLog.call[1].before.compileBlocks[u] # undefined
        /\ formatLog.consumed[u] = -1

\* C40: in every state reached by calls made at non-decreasing times, a URI
\* with a pending automatic skip has a pending skip, and no URI has a manual
\* allowance and a compile block at the same time.
C40_AutoSkipsPendingAndNoAllowanceWithBlock ==
    /\ autoSkipUris \subseteq skipUris
    /\ \A u \in FormatUris :
          ~(manualAllowances[u] # undefined /\ compileBlocks[u] # undefined)

\* One URI has an automatic skip pending under a compile block while the other
\* has a manual allowance.
C40_SkipBlockAndAllowance ==
    \E u \in FormatUris, v \in FormatUris :
        /\ u \in autoSkipUris
        /\ compileBlocks[u] # undefined
        /\ manualAllowances[v] # undefined
        /\ clock > 0
====
